---------------------------- MODULE Spec2Model ----------------------------
(***************************************************************************)
(* A model of the synthetic-data generation pipeline: dependency analysis, *)
(* base-column generation, constraint enforcement, time-series generation, *)
(* foreign-key assignment, causal (SCM) evaluation, post-generation        *)
(* validation, and the streaming loop that repeats the pipeline in batches.*)
(***************************************************************************)
EXTENDS Integers, Sequences, FiniteSets, TLC

VARIABLES
    schema,            \* working_schema: [type, tables]
    pc,                \* position of the run in generate_tables_from_graph
    cursor,            \* index of the next table of the current sweep
    dependencies,      \* order returned by analyze_dependencies
    tables_data,       \* tables_data / generated_tables: table name -> table
    df,                \* the table being built by the base-generation sweep
    generated_tables,  \* what generate_scenario_data returned (the validator's input)
    events,            \* history: <<stage, table>> of every stage step taken
    seq_in,            \* input of one _generate_sequential call
    seq_out,           \* its result
    stream,            \* streaming parameters [mode, rate]
    sequential_state,  \* streaming: <<table, column>> -> next start
    batches,           \* streaming: per batch, the starts used and the columns generated
    call,              \* the arguments of one direct call of a function
    result             \* what that call returned, or that it raised

vars == <<schema, pc, cursor, dependencies, tables_data, df,
          generated_tables, events,
          seq_in, seq_out, stream, sequential_state, batches, call, result>>

pipeVars == <<schema, pc, cursor, dependencies, tables_data, df,
              generated_tables, events>>
seqVars == <<seq_in, seq_out>>
streamVars == <<stream, sequential_state, batches>>
callVars == <<call, result>>

-----------------------------------------------------------------------------
(* Bounds of the model *)

MaxRows == 2
MaxBatches == 3
MaxRate == 2
MaxSeqRows == 3
MaxSeqStart == 2
MaxSeqStep == 2

-----------------------------------------------------------------------------
(* Values and tables *)

\* The missing-value marker (None / NaN).  Generated values are positive.
Null == 0

ColNames == {"id", "ref", "ref2", "ts", "val"}

NoFK == [table |-> "", column |-> ""]

EmptyMap == [t \in {} |-> 0]

EmptyRow == [c \in ColNames |-> Null]

\* pd.DataFrame(): no columns, no rows
EmptyTable == [cols |-> {}, rows |-> <<>>]

NRows(d) == Len(d.rows)

\* df[col] = values (len(values) = len(df), or df has no column yet)
SetColumn(d, col, values) ==
    [cols |-> d.cols \cup {col},
     rows |-> [i \in 1..Len(values) |->
                 IF i <= Len(d.rows)
                    THEN [d.rows[i] EXCEPT ![col] = values[i]]
                    ELSE [EmptyRow EXCEPT ![col] = values[i]]]]

\* d[mask]: the rows at the kept positions, in order
RECURSIVE FilterRows(_, _, _)
FilterRows(rows, keep, i) ==
    IF i > Len(rows) THEN <<>>
    ELSE (IF i \in keep THEN <<rows[i]>> ELSE <<>>) \o FilterRows(rows, keep, i + 1)

KeepRows(d, keep) == [d EXCEPT !.rows = FilterRows(d.rows, keep, 1)]

\* d[col].dropna().unique()
DropNaUnique(d, col) == {d.rows[i][col] : i \in 1..Len(d.rows)} \ {Null}

\* d.drop_duplicates(subset=[col]): keep the first occurrence of each value
FirstOccurrences(d, col) ==
    {i \in 1..Len(d.rows) :
        \A j \in 1..(i - 1) : d.rows[j][col] # d.rows[i][col]}

DropDuplicates(d, col) == KeepRows(d, FirstOccurrences(d, col))

\* d[d[col].notnull()]
NotNullRows(d, col) ==
    KeepRows(d, {i \in 1..Len(d.rows) : d.rows[i][col] # Null})

Range(s) == {s[i] : i \in 1..Len(s)}

IndexOf(s, x) == CHOOSE i \in 1..Len(s) : s[i] = x

-----------------------------------------------------------------------------
(* analyze_dependencies *)

TableNames(sch) == [i \in 1..Len(sch.tables) |-> sch.tables[i].name]

\* spec.get('tables', []): a schema of the 'nodes' form has no 'tables' key
SpecTables(sch) == IF sch.type = "tables" THEN sch.tables ELSE <<>>

\* edges drawn from the child to the parent
EdgesOfReversed(tabs) ==
    LET names == {tabs[i].name : i \in 1..Len(tabs)}
    IN  UNION {{<<tabs[i].name, tabs[i].columns[c].foreign_key.table>> :
                   c \in {d \in 1..Len(tabs[i].columns) :
                            tabs[i].columns[d].foreign_key.table \in names}} :
               i \in 1..Len(tabs)}

\* G.add_edge(parent, tname) for every column whose foreign_key.table is a
\* known table (a DiGraph keeps one edge per pair)
EdgesOf(tabs) ==
    LET names == {tabs[i].name : i \in 1..Len(tabs)}
    IN  UNION {{<<tabs[i].columns[c].foreign_key.table, tabs[i].name>> :
                   c \in {d \in 1..Len(tabs[i].columns) :
                            tabs[i].columns[d].foreign_key.table \in names}} :
               i \in 1..Len(tabs)}

\* G.neighbors(node): the children of node, in the order their edges were added
Neighbors(names, edges, node) ==
    SelectSeq(names, LAMBDA c : <<node, c>> \in edges)

InDegree(names, edges, v) == Cardinality({e \in edges : e[2] = v})

\* for child in G.neighbors(node): indegree_map[child] -= 1; a child whose
\* in-degree reaches zero joins the next generation
RECURSIVE Relax(_, _, _)
Relax(children, k, st) ==
    IF k > Len(children) THEN st
    ELSE LET c == children[k]
             d == st.indeg[c] - 1
         IN  Relax(children, k + 1,
                   [indeg |-> [st.indeg EXCEPT ![c] = d],
                    next  |-> IF d = 0 THEN Append(st.next, c) ELSE st.next])

RECURSIVE ProcessGeneration(_, _, _, _, _)
ProcessGeneration(names, edges, gen, k, st) ==
    IF k > Len(gen) THEN st
    ELSE ProcessGeneration(names, edges, gen, k + 1,
                           Relax(Neighbors(names, edges, gen[k]), 1, st))

\* nx.topological_sort(G): generations of zero in-degree nodes, in turn
RECURSIVE TopologicalSort(_, _, _, _, _)
TopologicalSort(names, edges, gen, indeg, order) ==
    IF gen = <<>>
       THEN [ok    |-> \A v \in DOMAIN indeg : indeg[v] <= 0,
             order |-> order]
       ELSE LET st == ProcessGeneration(names, edges, gen, 1,
                                        [indeg |-> indeg, next |-> <<>>])
            IN  TopologicalSort(names, edges, st.next, st.indeg, order \o gen)

\* analyze_dependencies(spec): [ok, order]; ok = FALSE is
\* ValueError("Cyclic dependency detected among tables")
AnalyzeDependencies(sch) ==
    LET tabs  == SpecTables(sch)
        names == [i \in 1..Len(tabs) |-> tabs[i].name]
        edges == EdgesOf(tabs)
        indeg == [v \in Range(names) |-> InDegree(names, edges, v)]
        zero  == SelectSeq(names, LAMBDA v : indeg[v] = 0)
    IN  TopologicalSort(names, edges, zero, indeg, <<>>)

-----------------------------------------------------------------------------
(* generate_column *)

\* range(start, stop, step) for step # 0
PyRangeLen(start, stop, step) ==
    IF step > 0
       THEN (IF stop > start THEN ((stop - start - 1) \div step) + 1 ELSE 0)
       ELSE (IF stop < start THEN ((start - stop - 1) \div (0 - step)) + 1 ELSE 0)

PyRange(start, stop, step) ==
    [i \in 1..PyRangeLen(start, stop, step) |-> start + (i - 1) * step]

\* _generate_sequential: list(range(start, start + step * num_rows, step));
\* range() raises ValueError when step is zero (ok = FALSE)
GenerateSequential(start, step, num_rows) ==
    IF step = 0
       THEN [ok |-> FALSE, vals |-> <<>>]
       ELSE [ok |-> TRUE, vals |-> PyRange(start, start + step * num_rows, step)]

\* _generate_categorical: num_rows draws with replacement from values
GenerateCategorical(values, num_rows) == [1..num_rows -> values]

\* _generate_conditional without table_data: [None] * num_rows
GenerateConditional(num_rows) == [i \in 1..num_rows |-> Null]

\* generate_column(column_def, n, ...): [ok, vals], vals the set of the lists
\* the generator may return
GenerateColumn(col_def, n) ==
    CASE col_def.dist.type = "sequential" ->
            LET r == GenerateSequential(col_def.dist.start, col_def.dist.step, n)
            IN  [ok |-> r.ok, vals |-> IF r.ok THEN {r.vals} ELSE {}]
      [] col_def.dist.type = "categorical" ->
            [ok |-> TRUE, vals |-> GenerateCategorical(col_def.dist.values, n)]
      [] OTHER ->
            [ok |-> TRUE, vals |-> {GenerateConditional(n)}]

\* df = pd.DataFrame(); for col_def in columns: df[col_name] = generate_column(..)
RECURSIVE GenerateColumns(_, _, _, _)
GenerateColumns(columns, k, n, d) ==
    IF k > Len(columns) THEN {d}
    ELSE UNION {GenerateColumns(columns, k + 1, n, SetColumn(d, columns[k].name, v)) :
                   v \in GenerateColumn(columns[k], n).vals}

ColumnsRaise(columns, n) ==
    \E k \in 1..Len(columns) : ~GenerateColumn(columns[k], n).ok

-----------------------------------------------------------------------------
(* enforce_constraints *)

DigitChars == <<"0", "1", "2", "3", "4", "5", "6", "7", "8", "9">>

\* str(v) of a non-negative integer below 100
IntStr(v) ==
    IF v < 10 THEN <<DigitChars[v + 1]>>
    ELSE <<DigitChars[(v \div 10) + 1], DigitChars[(v % 10) + 1]>>

\* df[col].astype(str) at row i, as a sequence of characters: a numeric column
\* holding a null is a float column, whose cells read "1.0" and "nan"
StrCell(d, col, i) ==
    LET v == d.rows[i][col]
    IN  IF \A j \in 1..Len(d.rows) : d.rows[j][col] # Null THEN IntStr(v)
        ELSE IF v = Null THEN <<"n", "a", "n">>
        ELSE IntStr(v) \o <<".", "0">>

\* Series.str.match(pattern): re.match, which matches at the start of the
\* string; a pattern is a sequence of literal characters and "." wildcards
StrMatch(pattern, str) ==
    /\ Len(pattern) <= Len(str)
    /\ \A k \in 1..Len(pattern) : pattern[k] = "." \/ pattern[k] = str[k]

\* a clip that takes the other bound
ClipSwapped(v, lo, hi) ==
    IF v = Null THEN Null
    ELSE LET a == IF lo # Null /\ v < lo THEN hi ELSE v
         IN  IF hi # Null /\ a # Null /\ a > hi THEN lo ELSE a

Clip(v, lo, hi) ==
    IF v = Null THEN Null
    ELSE LET a == IF lo # Null /\ v < lo THEN lo ELSE v
         IN  IF hi # Null /\ a > hi THEN hi ELSE a

ApplyConstraint(d, c) ==
    IF c.column \notin d.cols THEN d
    ELSE CASE c.type = "value_range" ->
                [d EXCEPT !.rows = [i \in 1..Len(d.rows) |->
                    [d.rows[i] EXCEPT ![c.column] = Clip(@, c.min, c.max)]]]
           [] c.type = "categorical" ->
                IF c.values = {} THEN d
                ELSE KeepRows(d, {i \in 1..Len(d.rows) :
                                     d.rows[i][c.column] \in c.values})
           [] c.type = "nullability" ->
                IF c.nullable THEN d ELSE NotNullRows(d, c.column)
           [] c.type = "regex" ->
                IF c.pattern = <<>> THEN d
                ELSE KeepRows(d, {i \in 1..Len(d.rows) :
                                     StrMatch(c.pattern, StrCell(d, c.column, i))})
           [] c.type = "unique" -> DropDuplicates(d, c.column)
           [] OTHER -> d

RECURSIVE ApplyConstraints(_, _, _)
ApplyConstraints(d, constraints, k) ==
    IF k > Len(constraints) THEN d
    ELSE ApplyConstraints(ApplyConstraint(d, constraints[k]), constraints, k + 1)

\* enforce_constraints(df, constraints)
EnforceConstraints(d, constraints) == ApplyConstraints(d, constraints, 1)

-----------------------------------------------------------------------------
(* generate_time_series_for_table *)

\* df[column] = pd.date_range(start, periods=len(df), freq): one increasing
\* timestamp per row
GenerateTimeSeries(d, column) ==
    SetColumn(d, column, [i \in 1..Len(d.rows) |-> i])

-----------------------------------------------------------------------------
(* assign_foreign_key, without a condition *)

\* the parent's keys without dropna()
ParentIdsKeepNull(parent_df, parent_col) ==
    {parent_df.rows[i][parent_col] : i \in 1..Len(parent_df.rows)}

\* parent_df[parent_col].dropna().unique().tolist()
ParentIds(parent_df, parent_col) == DropNaUnique(parent_df, parent_col)

\* only the missing column raises, not the lack of keys
AssignRaisesOnMissingColumnOnly(parent_df, parent_col) ==
    parent_col \notin parent_df.cols

\* ValueError when parent_col is no column of parent_df or no key is left
AssignRaises(parent_df, parent_col) ==
    \/ parent_col \notin parent_df.cols
    \/ ParentIds(parent_df, parent_col) = {}

\* one draw per parent row instead of one per child row
AssignForeignKeyPerParentRow(child_df, child_col, parent_df, parent_col) ==
    {SetColumn(child_df, child_col, f) :
        f \in [1..Len(parent_df.rows) -> ParentIds(parent_df, parent_col)]}

\* child_df[child_col] = random.choices(parent_ids, k=len(child_df))
AssignForeignKey(child_df, child_col, parent_df, parent_col) ==
    {SetColumn(child_df, child_col, f) :
        f \in [1..Len(child_df.rows) -> ParentIds(parent_df, parent_col)]}

-----------------------------------------------------------------------------
(* generate_causal_by_scm *)

\* df.eval(expr): a column reference or a constant
ExprRaises(d, fn) == fn.kind = "col" /\ fn.col \notin d.cols

EvalExpr(d, fn) ==
    [i \in 1..Len(d.rows) |->
        IF fn.kind = "col" THEN d.rows[i][fn.col] ELSE fn.val]

RECURSIVE CausalFrom(_, _, _)
CausalFrom(d, scm, k) ==
    IF k > Len(scm) THEN [ok |-> TRUE, df |-> d]
    ELSE IF ExprRaises(d, scm[k].fn) THEN [ok |-> FALSE, df |-> d]
    ELSE CausalFrom(SetColumn(d, scm[k].col, EvalExpr(d, scm[k].fn)), scm, k + 1)

\* generate_causal_by_scm(df, scm_spec): an empty df is returned as is
GenerateCausalByScm(d, scm) ==
    IF d.rows = <<>> \/ d.cols = {} \/ scm = <<>>
       THEN [ok |-> TRUE, df |-> d]
       ELSE CausalFrom(d, scm, 1)

-----------------------------------------------------------------------------
(* post_generation_validate *)

MapPut(m, k, v) == [x \in DOMAIN m \cup {k} |-> IF x = k THEN v ELSE m[x]]

HasFK(col) == col.foreign_key.table # ""

\* valid_set = set(parent_df[parent_col].dropna().unique());
\* df.loc[~df[col].isin(valid_set), col] = None
InvalidateWrongFKs(d, col_name, valid_set) ==
    [d EXCEPT !.rows = [i \in 1..Len(d.rows) |->
        [d.rows[i] EXCEPT ![col_name] =
            IF @ \in valid_set THEN @ ELSE Null]]]

\* the foreign-key pass of one table: every foreign-key column in turn, each
\* against the parent as all_tables holds it at that moment
RECURSIVE RepairForeignKeys(_, _, _, _)
RepairForeignKeys(all_tables, tname, columns, k) ==
    IF k > Len(columns) THEN all_tables
    ELSE LET col    == columns[k]
             parent == col.foreign_key.table
             pcol   == col.foreign_key.column
         IN  IF HasFK(col) /\ parent \in DOMAIN all_tables
                /\ pcol \in all_tables[parent].cols
                THEN RepairForeignKeys(
                        MapPut(all_tables, tname,
                               InvalidateWrongFKs(all_tables[tname], col.name,
                                   DropNaUnique(all_tables[parent], pcol))),
                        tname, columns, k + 1)
                ELSE RepairForeignKeys(all_tables, tname, columns, k + 1)

\* a uniqueness pass that reads the flag of the wrong columns
UniquenessPassWrongFlag(d, columns, k) ==
    IF k > Len(columns) \/ columns[k].unique THEN d
    ELSE DropDuplicates(d, columns[k].name)

\* the uniqueness pass: drop_duplicates on every unique column in turn
RECURSIVE UniquenessPass(_, _, _)
UniquenessPass(d, columns, k) ==
    IF k > Len(columns) THEN d
    ELSE UniquenessPass(
            IF columns[k].unique /\ columns[k].name \in d.cols
               THEN DropDuplicates(d, columns[k].name) ELSE d,
            columns, k + 1)

\* the nullability pass: drop the rows holding null in a non-nullable column
RECURSIVE NullabilityPass(_, _, _)
NullabilityPass(d, columns, k) ==
    IF k > Len(columns) THEN d
    ELSE NullabilityPass(
            IF ~columns[k].nullable /\ columns[k].name \in d.cols
               THEN NotNullRows(d, columns[k].name) ELSE d,
            columns, k + 1)

\* the passes in another order: nullability before the foreign-key repair
ValidateTableNullFirst(all_tables, table) ==
    IF table.name \notin DOMAIN all_tables THEN all_tables
    ELSE LET n == NullabilityPass(all_tables[table.name], table.columns, 1)
             a == RepairForeignKeys(MapPut(all_tables, table.name, n),
                                    table.name, table.columns, 1)
             u == UniquenessPass(a[table.name], table.columns, 1)
         IN  MapPut(a, table.name, u)

\* one iteration of "for table in spec['tables']"
ValidateTable(all_tables, table) ==
    IF table.name \notin DOMAIN all_tables THEN all_tables
    ELSE LET a == RepairForeignKeys(all_tables, table.name, table.columns, 1)
             u == UniquenessPass(a[table.name], table.columns, 1)
             n == NullabilityPass(u, table.columns, 1)
         IN  MapPut(a, table.name, n)

RECURSIVE ValidateTables(_, _, _)
ValidateTables(all_tables, tabs, k) ==
    IF k > Len(tabs) THEN all_tables
    ELSE ValidateTables(ValidateTable(all_tables, tabs[k]), tabs, k + 1)

\* post_generation_validate(all_tables, spec)
PostGenerationValidate(all_tables, sch) ==
    IF sch.type # "tables" THEN all_tables
    ELSE ValidateTables(all_tables, sch.tables, 1)

-----------------------------------------------------------------------------
(* Schemas *)

SeqDist(start, step) ==
    [type |-> "sequential", start |-> start, step |-> step, values |-> {}]

CatDist(values) ==
    [type |-> "categorical", start |-> 0, step |-> 0, values |-> values]

Column(name, dist, fk, unique, nullable) ==
    [name |-> name, dist |-> dist, foreign_key |-> fk,
     unique |-> unique, nullable |-> nullable]

\* a primary key: sequential 1, 2, ..., unique and not nullable
IdColumn == Column("id", SeqDist(1, 1), NoFK, TRUE, FALSE)

NoTimeSeries == [column |-> ""]

Constraint(type, column) ==
    [type |-> type, column |-> column, min |-> Null, max |-> Null,
     values |-> {}, nullable |-> FALSE, pattern |-> <<>>]

ColExpr(c) == [kind |-> "col", col |-> c, val |-> 0]
ConstExpr(v) == [kind |-> "const", col |-> "", val |-> v]

\* what a table may carry beside its columns
Extras ==
    {[constraints |-> <<>>, time_series_spec |-> NoTimeSeries, scm |-> <<>>],
     [constraints |-> <<Constraint("unique", "ref")>>,
      time_series_spec |-> NoTimeSeries, scm |-> <<>>],
     [constraints |-> <<Constraint("nullability", "ref")>>,
      time_series_spec |-> [column |-> "ts"], scm |-> <<>>],
     [constraints |-> <<>>, time_series_spec |-> NoTimeSeries,
      scm |-> <<[col |-> "val", fn |-> ColExpr("id")],
                [col |-> "ref", fn |-> ConstExpr(2)]>>]}

\* the second column of a table: a plain categorical column that may hold
\* null, or a foreign key to a column of the other table
RefColumns(other) ==
    {Column("ref", CatDist({Null, 1}), NoFK, u, n) : u, n \in BOOLEAN}
    \cup
    {Column("ref", SeqDist(1, 1), [table |-> other, column |-> pc_], u, n) :
        pc_ \in {"id", "ref"}, u, n \in BOOLEAN}

TableSpecs(self, other) ==
    {[name |-> self, rows |-> r, columns |-> <<IdColumn, c>>,
      constraints |-> x.constraints, time_series_spec |-> x.time_series_spec,
      scm |-> x.scm] :
        r \in 0..MaxRows, c \in RefColumns(other), x \in Extras}

\* two tables, listed A then B, with every combination of the above
TwoTableSchemas ==
    {[type |-> "tables", tables |-> <<a, b>>] :
        a \in TableSpecs("A", "B"), b \in TableSpecs("B", "A")}

\* a foreign-key column to the id of a table of the schema, or of table Z,
\* which no schema has, or no foreign key at all
FKColumns(name) ==
    {Column(name, SeqDist(1, 1), NoFK, FALSE, TRUE)} \cup
    {Column(name, SeqDist(1, 1), [table |-> p, column |-> "id"], FALSE, TRUE) :
        p \in {"A", "B", "C", "Z"}}

PlainTable(name, columns) ==
    [name |-> name, rows |-> 1, columns |-> columns, constraints |-> <<>>,
     time_series_spec |-> NoTimeSeries, scm |-> <<>>]

\* three tables, listed A, B, C, with every foreign-key graph over them
ThreeTableSchemas ==
    {[type |-> "tables",
      tables |-> <<PlainTable("A", <<IdColumn, c[1], c[2]>>),
                   PlainTable("B", <<IdColumn, c[3], c[4]>>),
                   PlainTable("C", <<IdColumn, c[5], c[6]>>)>>] :
        c \in FKColumns("ref") \X FKColumns("ref2") \X FKColumns("ref") \X
              FKColumns("ref2") \X FKColumns("ref") \X FKColumns("ref2")}

\* schemas that list their tables under 'nodes'
NodeSchemas ==
    {[type |-> "nodes", tables |-> s.tables] :
        s \in {x \in TwoTableSchemas :
                  \A i \in 1..2 : /\ x.tables[i].constraints = <<>>
                                  /\ x.tables[i].scm = <<>>
                                  /\ x.tables[i].time_series_spec = NoTimeSeries
                                  /\ x.tables[i].columns[2].nullable
                                  /\ ~x.tables[i].columns[2].unique}}

\* distribution {type: conditional, on, cases}: cases maps a value of column
\* `on` to the sub-distribution of that case
CondDist(on, cases) ==
    [type |-> "conditional", start |-> 0, step |-> 0, values |-> {},
     on |-> on, cases |-> cases]

\* a parent A of one id column and a child B whose `ref` is a foreign key to
\* A.id, to a column A does not have, or to a table the schema does not have,
\* whose `val` is conditional on its own id (a case for id 1, none for id 2),
\* and whose causal model may name a column the table does not have
ParentChildSchemas ==
    {[type |-> "tables",
      tables |-> <<[PlainTable("A", <<IdColumn>>) EXCEPT !.rows = ra],
                   [PlainTable("B",
                       <<IdColumn,
                         Column("ref", SeqDist(1, 1), fk, FALSE, TRUE),
                         Column("val", CondDist("id", [k \in {1} |-> CatDist({5})]),
                                NoFK, FALSE, TRUE)>>)
                      EXCEPT !.rows = rb, !.scm = m]>>] :
        ra \in 0..MaxRows, rb \in 0..MaxRows,
        fk \in {[table |-> "A", column |-> "id"], [table |-> "A", column |-> "ts"],
                [table |-> "Z", column |-> "id"]},
        m \in {<<>>, <<[col |-> "ref2", fn |-> ColExpr("ts")]>>}}

\* a schema with neither a 'tables' nor a 'nodes' key
KeylessSchema == [type |-> "none", tables |-> <<>>]

PipelineSchemas ==
    TwoTableSchemas \cup ThreeTableSchemas \cup NodeSchemas \cup ParentChildSchemas
        \cup {KeylessSchema}

-----------------------------------------------------------------------------
(* generate_scenario_data followed by post_generation_validate *)

table_list == schema.tables

TableSpecOf(name) == table_list[IndexOf(TableNames(schema), name)]

Requested(name) == TableSpecOf(name).rows

\* the sweeps in another order: causal evaluation before the foreign keys
NextPosScmFirst(stage, c, deps) ==
    CASE stage = "gen" /\ c < Len(deps) -> [pc |-> "gen", cursor |-> c + 1]
      [] stage = "gen" /\ c >= Len(deps) -> [pc |-> "scm", cursor |-> 1]
      [] stage = "scm" /\ c < Len(schema.tables) -> [pc |-> "scm", cursor |-> c + 1]
      [] stage = "scm" /\ c >= Len(schema.tables) -> [pc |-> "fk", cursor |-> 1]
      [] stage = "fk" /\ c < Len(schema.tables) -> [pc |-> "fk", cursor |-> c + 1]
      [] OTHER -> [pc |-> "validate", cursor |-> 1]

\* where the run goes after table c of a sweep
NextPos(stage, c, deps) ==
    CASE stage = "gen" /\ c < Len(deps) -> [pc |-> "gen", cursor |-> c + 1]
      [] stage = "gen" /\ c >= Len(deps) ->
            IF Len(table_list) > 0 THEN [pc |-> "fk", cursor |-> 1]
                                   ELSE [pc |-> "validate", cursor |-> 1]
      [] stage = "fk" /\ c < Len(table_list) -> [pc |-> "fk", cursor |-> c + 1]
      [] stage = "fk" /\ c >= Len(table_list) -> [pc |-> "scm", cursor |-> 1]
      [] stage = "scm" /\ c < Len(table_list) -> [pc |-> "scm", cursor |-> c + 1]
      [] OTHER -> [pc |-> "validate", cursor |-> 1]

Goto(pos) == pc' = pos.pc /\ cursor' = pos.cursor

Log(stage, name) == events' = Append(events, <<stage, name>>)

\* a schema with neither 'tables' nor 'nodes' raises KeyError; otherwise
\* dependencies, _ = analyze_dependencies(working_schema)
Analyze ==
    /\ pc = "start"
    /\ LET r == AnalyzeDependencies(schema)
       IN  IF r.ok /\ schema.type \in {"tables", "nodes"}
              THEN /\ dependencies' = r.order
                   /\ Goto(NextPos("gen", 0, r.order))
              ELSE /\ pc' = "error"
                   /\ UNCHANGED <<dependencies, cursor>>
    /\ UNCHANGED <<schema, tables_data, df, generated_tables, events,
                   seqVars, streamVars, callVars>>

\* Step 1: the columns of the next table of the dependency order
GenerateBase ==
    /\ pc = "gen"
    /\ LET name == dependencies[cursor]
           t    == TableSpecOf(name)
       IN  IF ColumnsRaise(t.columns, t.rows)
              THEN /\ pc' = "error"
                   /\ UNCHANGED <<df, events>>
              ELSE /\ \E d \in GenerateColumns(t.columns, 1, t.rows, EmptyTable) :
                         df' = d
                   /\ pc' = "enforce"
                   /\ Log("gen", name)
    /\ UNCHANGED <<schema, cursor, dependencies, tables_data, generated_tables,
                   seqVars, streamVars, callVars>>

\* Step 2: df = enforce_constraints(df, constraints); tables_data[name] = df
Enforce ==
    /\ pc = "enforce"
    /\ LET name == dependencies[cursor]
           t    == TableSpecOf(name)
           d    == EnforceConstraints(df, t.constraints)
       IN  /\ df' = d
           /\ tables_data' = MapPut(tables_data, name, d)
           /\ Log("enforce", name)
           /\ IF t.time_series_spec.column # ""
                 THEN pc' = "ts" /\ cursor' = cursor
                 ELSE Goto(NextPos("gen", cursor, dependencies))
    /\ UNCHANGED <<schema, dependencies, generated_tables, seqVars, streamVars, callVars>>

\* Step 2.5: df = generate_time_series_for_table(df, time_series_spec)
TimeSeries ==
    /\ pc = "ts"
    /\ LET name == dependencies[cursor]
           t    == TableSpecOf(name)
           d    == GenerateTimeSeries(df, t.time_series_spec.column)
       IN  /\ df' = d
           /\ tables_data' = MapPut(tables_data, name, d)
           /\ Log("ts", name)
           /\ Goto(NextPos("gen", cursor, dependencies))
    /\ UNCHANGED <<schema, dependencies, generated_tables, seqVars, streamVars, callVars>>

\* the foreign-key columns of one table whose parent table was generated
FKRaises(columns) ==
    \E k \in 1..Len(columns) :
        /\ HasFK(columns[k])
        /\ columns[k].foreign_key.table \in DOMAIN tables_data
        /\ AssignRaises(tables_data[columns[k].foreign_key.table],
                        columns[k].foreign_key.column)

RECURSIVE AssignColumns(_, _, _)
AssignColumns(d, columns, k) ==
    IF k > Len(columns) THEN {d}
    ELSE LET fk == columns[k].foreign_key
         IN  IF HasFK(columns[k]) /\ fk.table \in DOMAIN tables_data
                THEN UNION {AssignColumns(e, columns, k + 1) :
                               e \in AssignForeignKey(d, columns[k].name,
                                        tables_data[fk.table], fk.column)}
                ELSE AssignColumns(d, columns, k + 1)

\* Step 3: assign the foreign keys of the next table of the table list
AssignForeignKeys ==
    /\ pc = "fk"
    /\ LET t == table_list[cursor]
       IN  IF t.name \notin DOMAIN tables_data
              THEN /\ Goto(NextPos("fk", cursor, dependencies))
                   /\ UNCHANGED <<tables_data, events>>
              ELSE IF FKRaises(t.columns)
              THEN /\ pc' = "error"
                   /\ UNCHANGED <<cursor, tables_data, events>>
              ELSE /\ \E d \in AssignColumns(tables_data[t.name], t.columns, 1) :
                         tables_data' = MapPut(tables_data, t.name, d)
                   /\ Log("fk", t.name)
                   /\ Goto(NextPos("fk", cursor, dependencies))
    /\ UNCHANGED <<schema, dependencies, df, generated_tables, seqVars, streamVars, callVars>>

\* Step 4: apply the causal model of the next table of the table list
ApplyScm ==
    /\ pc = "scm"
    /\ LET t == table_list[cursor]
       IN  IF t.name \notin DOMAIN tables_data
              THEN /\ Goto(NextPos("scm", cursor, dependencies))
                   /\ UNCHANGED <<tables_data, events>>
              ELSE LET r == GenerateCausalByScm(tables_data[t.name], t.scm)
                   IN  IF r.ok
                          THEN /\ tables_data' = MapPut(tables_data, t.name, r.df)
                               /\ Log("scm", t.name)
                               /\ Goto(NextPos("scm", cursor, dependencies))
                          ELSE /\ pc' = "error"
                               /\ UNCHANGED <<cursor, tables_data, events>>
    /\ UNCHANGED <<schema, dependencies, df, generated_tables, seqVars, streamVars, callVars>>

\* generated_tables = post_generation_validate(generated_tables, working_schema)
Validate ==
    /\ pc = "validate"
    /\ generated_tables' = tables_data
    /\ tables_data' = PostGenerationValidate(tables_data, schema)
    /\ Log("validate", "")
    /\ pc' = "done"
    /\ UNCHANGED <<schema, cursor, dependencies, df, seqVars, streamVars, callVars>>

NoSeq == [start |-> 0, step |-> 0, num_rows |-> 0]
NoStream == [mode |-> "", rate |-> 0]

IdleSeq == seq_in = NoSeq /\ seq_out = [ok |-> TRUE, vals |-> <<>>]
IdleStream == stream = NoStream /\ sequential_state = EmptyMap /\ batches = <<>>

NoCall == [fn |-> ""]
NoResult == [ok |-> TRUE]
IdleCall == call = NoCall /\ result = NoResult

Init ==
    /\ schema \in PipelineSchemas
    /\ pc = "start"
    /\ cursor = 1
    /\ dependencies = <<>>
    /\ tables_data = EmptyMap
    /\ df = EmptyTable
    /\ generated_tables = EmptyMap
    /\ events = <<>>
    /\ IdleSeq
    /\ IdleStream
    /\ IdleCall

Next ==
    \/ Analyze
    \/ GenerateBase
    \/ Enforce
    \/ TimeSeries
    \/ AssignForeignKeys
    \/ ApplyScm
    \/ Validate

Spec == Init /\ [][Next]_vars

-----------------------------------------------------------------------------
(* Properties of the pipeline *)

ColumnValues(d, c) == {d.rows[i][c] : i \in 1..Len(d.rows)}

\* <<i, k>>: column k of table i of the schema
SchemaColumns ==
    UNION {{<<i, k>> : k \in 1..Len(schema.tables[i].columns)} :
           i \in 1..Len(schema.tables)}

\* the foreign-key columns whose child table, parent table and parent column
\* exist in the output
OutputFKs(tabs) ==
    {ik \in SchemaColumns :
        LET t  == schema.tables[ik[1]]
            fk == t.columns[ik[2]].foreign_key
        IN  /\ fk.table # ""
            /\ t.name \in DOMAIN tabs
            /\ fk.table \in DOMAIN tabs
            /\ fk.column \in tabs[fk.table].cols}

\* C1: after post_generation_validate, every non-null value of a foreign-key
\* column is a value of the parent's key column in the returned parent table.
C1_FKValuesInFinalParent ==
    pc = "done" =>
        \A ik \in OutputFKs(tables_data) :
            LET t   == schema.tables[ik[1]]
                col == t.columns[ik[2]]
            IN  ColumnValues(tables_data[t.name], col.name) \ {Null}
                    \subseteq
                ColumnValues(tables_data[col.foreign_key.table],
                             col.foreign_key.column)

HasDuplicate(d, c) ==
    \E i, j \in 1..Len(d.rows) :
        i < j /\ d.rows[i][c] # Null /\ d.rows[i][c] = d.rows[j][c]

\* C2: after post_generation_validate, no two rows of a table hold the same
\* non-null value in a column declared unique.
C2_UniqueColumnsHaveNoDuplicates ==
    pc = "done" =>
        \A ik \in SchemaColumns :
            LET t   == schema.tables[ik[1]]
                col == t.columns[ik[2]]
            IN  (col.unique /\ t.name \in DOMAIN tables_data
                   /\ col.name \in tables_data[t.name].cols)
                => ~HasDuplicate(tables_data[t.name], col.name)

\* a run whose validator met duplicates in a unique column and kept a row
C2_Witness ==
    /\ pc = "done"
    /\ \E ik \in SchemaColumns :
          LET t   == schema.tables[ik[1]]
              col == t.columns[ik[2]]
          IN  /\ col.unique
              /\ t.name \in DOMAIN generated_tables
              /\ HasDuplicate(generated_tables[t.name], col.name)
              /\ Len(tables_data[t.name].rows) = 1

\* C3: after post_generation_validate, no row of a table holds null in a
\* column declared nullable = false, foreign-key columns included.
C3_NonNullableColumnsHaveNoNull ==
    pc = "done" =>
        \A ik \in SchemaColumns :
            LET t   == schema.tables[ik[1]]
                col == t.columns[ik[2]]
            IN  (~col.nullable /\ t.name \in DOMAIN tables_data
                   /\ col.name \in tables_data[t.name].cols)
                => Null \notin ColumnValues(tables_data[t.name], col.name)

\* a run whose validator nulled a dangling value of a non-nullable foreign
\* key and then dropped that row, keeping another
C3_Witness ==
    /\ pc = "done"
    /\ \E ik \in OutputFKs(generated_tables) :
          LET t   == schema.tables[ik[1]]
              col == t.columns[ik[2]]
              g   == generated_tables[t.name]
          IN  /\ ~col.nullable
              /\ Null \notin ColumnValues(g, col.name)
              /\ Len(tables_data[t.name].rows) < Len(g.rows)
              /\ ~HasDuplicate(g, col.name)

\* a run in which validation dropped some but not all rows of a table
C4_Witness ==
    /\ pc = "done"
    /\ \E t \in DOMAIN tables_data :
          /\ Len(tables_data[t].rows) > 0
          /\ Len(tables_data[t].rows) < Len(generated_tables[t].rows)
          /\ "ts" \in tables_data[t].cols

RowCountsWithinRequested ==
    /\ \A t \in DOMAIN tables_data : Len(tables_data[t].rows) <= Requested(t)
    /\ pc \in {"enforce", "ts"} =>
          Len(df.rows) <= Requested(dependencies[cursor])

RowCountSteps ==
    /\ pc \in {"fk", "scm"} =>
          \A t \in DOMAIN tables_data :
              Len(tables_data'[t].rows) = Len(tables_data[t].rows)
    /\ pc = "enforce" => Len(df'.rows) <= Len(df.rows)
    /\ pc = "ts" => Len(df'.rows) = Len(df.rows)
    /\ pc = "validate" =>
          \A t \in DOMAIN tables_data :
              Len(tables_data'[t].rows) <= Len(tables_data[t].rows)

\* C4: at every stage every table has at most the requested number of rows;
\* foreign-key assignment and causal evaluation keep the row count, and
\* constraint enforcement and validation never add rows.
C4_RowCountNeverExceedsRequested ==
    []RowCountsWithinRequested /\ [][RowCountSteps]_vars

-----------------------------------------------------------------------------
(* Properties of the dependency order *)

SchemaNames == {schema.tables[i].name : i \in 1..Len(schema.tables)}

\* parent -> child for every foreign key to a table of the schema
FKEdges ==
    {<<schema.tables[ik[1]].columns[ik[2]].foreign_key.table,
       schema.tables[ik[1]].name>> : ik \in SchemaColumns}
    \cap (SchemaNames \X SchemaNames)

Compose(R, S) ==
    UNION {{<<e[1], f[2]>> : f \in {g \in S : g[1] = e[2]}} : e \in R}

RECURSIVE Closure(_, _)
Closure(R, n) == IF n = 0 THEN R ELSE Closure(R \cup Compose(R, R), n - 1)

Cyclic == \E v \in SchemaNames : <<v, v>> \in Closure(FKEdges, 2)

\* C5: for an acyclic schema the returned order holds every table name once
\* and every table after each table its foreign keys name.
C5_OrderIsTopological ==
    (schema.type = "tables" /\ pc # "start" /\ ~Cyclic) =>
        /\ Len(dependencies) = Len(schema.tables)
        /\ {dependencies[i] : i \in 1..Len(dependencies)} = SchemaNames
        /\ \A e \in FKEdges :
              \E i, j \in 1..Len(dependencies) :
                  i < j /\ dependencies[i] = e[1] /\ dependencies[j] = e[2]

\* an analysed schema whose order reverses the listing order: C before B before A
C5_Witness ==
    /\ pc # "start"
    /\ FKEdges = {<<"C", "B">>, <<"B", "A">>}
    /\ dependencies = <<"C", "B", "A">>

\* C6: a cycle among the foreign keys of the schema's tables (a self-reference
\* or a chain of any length) makes dependency resolution fail with the
\* cyclic-dependency error, and no table is generated: the run ends before any
\* base-column generation.
C6_CycleAbortsBeforeGeneration ==
    (Cyclic /\ pc # "start") =>
        /\ pc = "error"
        /\ dependencies = <<>>
        /\ tables_data = EmptyMap
        /\ events = <<>>

-----------------------------------------------------------------------------
(* Properties of the stage order *)

Rank(stage) ==
    CASE stage \in {"gen", "enforce", "ts"} -> 1
      [] stage = "fk" -> 2
      [] stage = "scm" -> 3
      [] OTHER -> 4

Before(i, stage, name) ==
    \E j \in 1..(i - 1) : events[j] = <<stage, name>>

GeneratedNames == {schema.tables[i].name : i \in 1..Len(SpecTables(schema))}

GenEvents == SelectSeq(events, LAMBDA e : e[1] = "gen")

\* C9: the stages are strictly ordered across all tables: base generation (in
\* topological order) and constraint enforcement of every table, then the
\* foreign keys of every table, then the causal evaluation of every table,
\* then one validation.
C9_StagesAreOrdered ==
    /\ \A i, j \in 1..Len(events) :
          i < j => Rank(events[i][1]) <= Rank(events[j][1])
    /\ \A i \in 1..Len(GenEvents) : GenEvents[i][2] = dependencies[i]
    /\ \A i \in 1..Len(events) :
          /\ events[i][1] = "fk" =>
                \A t \in GeneratedNames :
                    /\ Before(i, "gen", t)
                    /\ Before(i, "enforce", t)
                    /\ TableSpecOf(t).time_series_spec.column # ""
                          => Before(i, "ts", t)
          /\ events[i][1] = "scm" =>
                \A t \in GeneratedNames : Before(i, "fk", t)
          /\ events[i][1] = "validate" =>
                \A t \in GeneratedNames : Before(i, "scm", t)
    /\ Cardinality({i \in 1..Len(events) : events[i][1] = "validate"})
          = IF pc = "done" THEN 1 ELSE 0

\* a finished run over two tables generated against the listing order, one
\* of them with a time series
C9_Witness ==
    /\ pc = "done"
    /\ dependencies = <<"B", "A">>
    /\ \E i \in 1..Len(events) : events[i][1] = "ts"

-----------------------------------------------------------------------------
(* Properties of the foreign-key assignment *)

\* C10: assign_foreign_key without a condition gives every child row one of
\* the parent's distinct non-null key values and keeps the child's row count.
C10_AssignedKeysComeFromParent ==
    [][(pc = "fk" /\ pc' # "error"
          /\ schema.tables[cursor].name \in DOMAIN tables_data) =>
        LET t == schema.tables[cursor]
        IN  /\ Len(tables_data'[t.name].rows) = Len(tables_data[t.name].rows)
            /\ \A k \in 1..Len(t.columns) :
                  LET fk == t.columns[k].foreign_key
                  IN  (fk.table # "" /\ fk.table \in DOMAIN tables_data) =>
                         ColumnValues(tables_data'[t.name], t.columns[k].name)
                            \subseteq
                         (ColumnValues(tables_data[fk.table], fk.column) \ {Null})
       ]_vars

\* a child of two rows that drew two different keys of its parent
C10_Witness ==
    /\ pc \in {"fk", "scm"}
    /\ events # <<>>
    /\ events[Len(events)][1] = "fk"
    /\ LET t == TableSpecOf(events[Len(events)][2])
       IN  \E k \in 1..Len(t.columns) :
              /\ t.columns[k].name = "ref"
              /\ t.columns[k].foreign_key.table \in DOMAIN tables_data
              /\ Cardinality(ColumnValues(tables_data[t.name], "ref")) = 2

-----------------------------------------------------------------------------
(* One call of _generate_sequential *)

NoSchema == [type |-> "tables", tables |-> <<>>]

IdlePipeline ==
    /\ cursor = 1
    /\ dependencies = <<>>
    /\ tables_data = EmptyMap
    /\ df = EmptyTable
    /\ generated_tables = EmptyMap
    /\ events = <<>>

InitSeq ==
    /\ schema = NoSchema
    /\ pc = "seq_call"
    /\ IdlePipeline
    /\ seq_in \in [start : (0 - MaxSeqStart)..MaxSeqStart,
                   step : (0 - MaxSeqStep)..MaxSeqStep,
                   num_rows : 0..MaxSeqRows]
    /\ seq_out = [ok |-> TRUE, vals |-> <<>>]
    /\ IdleStream
    /\ IdleCall

CallGenerateSequential ==
    /\ pc = "seq_call"
    /\ seq_out' = GenerateSequential(seq_in.start, seq_in.step, seq_in.num_rows)
    /\ pc' = "seq_done"
    /\ UNCHANGED <<schema, cursor, dependencies, tables_data, df,
                   generated_tables, events, seq_in, streamVars, callVars>>

SpecSeq == InitSeq /\ [][CallGenerateSequential]_vars

\* C7: a sequential column of n rows with start s and step k is exactly
\* s, s + k, ..., s + (n - 1) k, for every integer s and k and every n >= 0.
C7_SequentialIsArithmetic ==
    pc = "seq_done" =>
        /\ seq_out.ok
        /\ seq_out.vals =
              [i \in 1..seq_in.num_rows |-> seq_in.start + (i - 1) * seq_in.step]

-----------------------------------------------------------------------------
(* The streaming loop *)

\* the template: table A with a counter of any start and step, table B with
\* a counter 1, 3, 5, ...
StreamTemplates ==
    {[type |-> "tables",
      tables |-> <<PlainTable("A", <<Column("id", SeqDist(s, k), NoFK, FALSE, TRUE)>>),
                   PlainTable("B", <<Column("id", SeqDist(1, 2), NoFK, FALSE, TRUE)>>)>>] :
        s \in 1..MaxSeqStart, k \in (0 - MaxSeqStep)..MaxSeqStep}

\* the (table, column) pairs whose distribution type is "sequential"
SequentialKeys(sch) ==
    UNION {{<<sch.tables[i].name, sch.tables[i].columns[c].name>> :
               c \in {d \in 1..Len(sch.tables[i].columns) :
                        sch.tables[i].columns[d].dist.type = "sequential"}} :
           i \in 1..Len(sch.tables)}

DistOf(sch, key) ==
    LET t == sch.tables[IndexOf(TableNames(sch), key[1])]
    IN  t.columns[IndexOf([c \in 1..Len(t.columns) |-> t.columns[c].name], key[2])].dist

\* sequential_state.get(state_key, dist.get("start", 1))
CurrentStart(state, key, dist) ==
    IF key \in DOMAIN state THEN state[key] ELSE dist.start

\* an advance that forgets the step
NextStartNoStep(current_start, rate, step) == current_start + rate

\* current_start + (rate * dist.get("step", 1))
NextStart(current_start, rate, step) == current_start + (rate * step)

InitStream ==
    /\ schema \in StreamTemplates
    /\ pc = "stream_setup"
    /\ IdlePipeline
    /\ IdleSeq
    /\ stream \in [mode : {"cli_out", "cli_stdout", "server"}, rate : 0..MaxRate]
    /\ sequential_state = EmptyMap
    /\ batches = <<>>
    /\ IdleCall

\* before the loop: the CLI with an output directory, and the server, set
\* the state of every sequential column to its start
StreamSetup ==
    /\ pc = "stream_setup"
    /\ sequential_state' =
          IF stream.mode = "cli_stdout" THEN EmptyMap
          ELSE [key \in SequentialKeys(schema) |-> DistOf(schema, key).start]
    /\ pc' = "stream_loop"
    /\ UNCHANGED <<schema, cursor, dependencies, tables_data, df,
                   generated_tables, events, seqVars, stream, batches, callVars>>

\* one iteration of the loop: the batch schema is a deep copy of the template
\* with rows = rate and the starts of the state; the state advances; the
\* batch is generated and emitted, or its generation raises
StreamBatch ==
    /\ pc = "stream_loop"
    /\ Len(batches) < MaxBatches
    /\ LET keys   == SequentialKeys(schema)
           starts == [key \in keys |->
                        CurrentStart(sequential_state, key, DistOf(schema, key))]
           gen    == [key \in keys |->
                        GenerateSequential(starts[key], DistOf(schema, key).step,
                                           stream.rate)]
       IN  /\ sequential_state' =
                 [key \in keys |->
                    NextStart(starts[key], stream.rate, DistOf(schema, key).step)]
           /\ IF \A key \in keys : gen[key].ok
                 THEN /\ batches' = Append(batches,
                            [starts |-> starts,
                             columns |-> [key \in keys |-> gen[key].vals]])
                      /\ pc' = "stream_loop"
                 ELSE /\ batches' = batches
                      /\ pc' = "error"
    /\ UNCHANGED <<schema, cursor, dependencies, tables_data, df,
                   generated_tables, events, seqVars, stream, callVars>>

\* the duration has elapsed
StreamEnd ==
    /\ pc = "stream_loop"
    /\ pc' = "stream_done"
    /\ UNCHANGED <<schema, cursor, dependencies, tables_data, df,
                   generated_tables, events, seqVars, streamVars, callVars>>

NextStream == StreamSetup \/ StreamBatch \/ StreamEnd

SpecStream == InitStream /\ [][NextStream]_vars

\* C8: batch i (i = 0, 1, ...) of a sequential column with start s and step
\* k is generated with start s + i * rate * k, so the values of consecutive
\* batches continue the sequence: none repeats, none is skipped.
C8_BatchesContinueTheSequence ==
    \A b \in 1..Len(batches) :
        \A key \in SequentialKeys(schema) :
            LET s == DistOf(schema, key).start
                k == DistOf(schema, key).step
                n == stream.rate
            IN  /\ batches[b].starts[key] = s + (b - 1) * n * k
                /\ Len(batches[b].columns[key]) = n
                /\ \A r \in 1..Len(batches[b].columns[key]) :
                      batches[b].columns[key][r] = s + ((b - 1) * n + (r - 1)) * k
                /\ \A c \in 1..Len(batches) :
                      \A r \in 1..Len(batches[b].columns[key]) :
                          \A q \in 1..Len(batches[c].columns[key]) :
                              (batches[b].columns[key][r] = batches[c].columns[key][q])
                                 => (b = c /\ r = q)

\* three batches of two rows emitted without an output directory, with a
\* step other than one
C8_Witness ==
    /\ Len(batches) = 3
    /\ stream = [mode |-> "cli_stdout", rate |-> 2]
    /\ DistOf(schema, <<"A", "id">>).step = 2
    /\ batches[3].columns[<<"A", "id">>][1] = DistOf(schema, <<"A", "id">>).start + 8
-----------------------------------------------------------------------------
(* assign_foreign_key called directly, with and without a condition *)

MaxCallRows == 2

NoCondition == [kind |-> "none", pred |-> <<>>, col |-> "", value |-> Null]

\* a callable condition: a predicate of the row, here of the row's `val`
CallableCondition(pred) ==
    [kind |-> "callable", pred |-> pred, col |-> "", value |-> Null]

\* a dict condition {"col": col, "value": value}; col = "" is a dict without 'col'
DictCondition(col, value) ==
    [kind |-> "dict", pred |-> <<>>, col |-> col, value |-> value]

\* mask = child_df.apply(condition, axis=1), or child_df[cond_col] == cond_val
\* (the comparison is False on every null cell)
ConditionMask(child_df, condition) ==
    IF condition.kind = "callable"
       THEN {i \in 1..Len(child_df.rows) : condition.pred[child_df.rows[i]["val"]]}
       ELSE {i \in 1..Len(child_df.rows) :
                /\ child_df.rows[i][condition.col] # Null
                /\ child_df.rows[i][condition.col] = condition.value}

\* ValueError for a dict without 'col', KeyError for a column the child lacks
ConditionRaises(child_df, condition) ==
    /\ condition.kind = "dict"
    /\ condition.col = "" \/ condition.col \notin child_df.cols

\* the rows that fail the condition keep the value they held
AssignWithMaskKeepOld(child_df, child_col, parent_ids, mask) ==
    {[cols |-> child_df.cols \cup {child_col},
      rows |-> [i \in 1..Len(child_df.rows) |->
                  IF i \in mask THEN [child_df.rows[i] EXCEPT ![child_col] = f[i]]
                               ELSE child_df.rows[i]]] :
        f \in [mask -> parent_ids]}

\* child_df.loc[mask, child_col] = random.choices(parent_ids, k=mask.sum());
\* child_df.loc[~mask, child_col] = None
AssignWithMask(child_df, child_col, parent_ids, mask) ==
    {[cols |-> child_df.cols \cup {child_col},
      rows |-> [i \in 1..Len(child_df.rows) |->
                  [child_df.rows[i] EXCEPT ![child_col] =
                      IF i \in mask THEN f[i] ELSE Null]]] :
        f \in [mask -> parent_ids]}

Raised == [ok |-> FALSE]

Returned(d) == [ok |-> TRUE, df |-> d]

\* assign_foreign_key(child_df, child_col, parent_df, parent_col, condition):
\* the results the call may have.  parent.absent is parent_df = None.  On a
\* child without rows apply() returns a frame, not a mask, and the call either
\* raises or returns the child unchanged but for the column.
AssignForeignKeyCall(child_df, child_col, parent, parent_col, condition) ==
    IF parent.absent \/ AssignRaises(parent.df, parent_col) THEN {Raised}
    ELSE CASE condition.kind = "none" ->
                {Returned(d) :
                    d \in AssignForeignKey(child_df, child_col, parent.df, parent_col)}
           [] condition.kind = "callable" /\ child_df.rows = <<>> ->
                {Raised, Returned(SetColumn(child_df, child_col, <<>>))}
           [] ConditionRaises(child_df, condition) -> {Raised}
           [] OTHER ->
                {Returned(d) :
                    d \in AssignWithMask(child_df, child_col,
                                         ParentIds(parent.df, parent_col),
                                         ConditionMask(child_df, condition))}

\* child tables of up to MaxCallRows rows over id, val and, maybe, ref
ChildTables ==
    UNION {{[cols |-> cs,
             rows |-> [i \in 1..n |->
                         [EmptyRow EXCEPT !["id"] = i, !["val"] = v[i],
                                          !["ref"] = IF "ref" \in cs THEN r[i] ELSE Null]]] :
               v \in [1..n -> {Null, 1, 2}], r \in [1..n -> {Null, 7}],
               cs \in {{"id", "val"}, {"id", "val", "ref"}}} :
           n \in 0..MaxCallRows}

\* parent tables of up to MaxCallRows rows with the one column id, and None
ParentTables ==
    {[absent |-> TRUE, df |-> EmptyTable]} \cup
    UNION {{[absent |-> FALSE,
             df |-> [cols |-> {"id"},
                     rows |-> [i \in 1..n |-> [EmptyRow EXCEPT !["id"] = k[i]]]]] :
               k \in [1..n -> {Null, 1, 2}]} :
           n \in 0..MaxCallRows}

Conditions ==
    {NoCondition}
    \cup {CallableCondition(p) : p \in [{Null, 1, 2} -> BOOLEAN]}
    \cup {DictCondition(c, v) : c \in {"", "val", "ts"}, v \in {Null, 1, 2}}

AssignCalls ==
    {[fn |-> "assign_foreign_key", child_df |-> c, child_col |-> "ref",
      parent |-> p, parent_col |-> pcol, condition |-> k] :
        c \in ChildTables, p \in ParentTables, pcol \in {"id", "ref2"},
        k \in Conditions}

InitCall(calls) ==
    /\ schema = NoSchema
    /\ pc = "call"
    /\ IdlePipeline
    /\ IdleSeq
    /\ IdleStream
    /\ call \in calls
    /\ result = NoResult

InitAssign == InitCall(AssignCalls)

CallAssignForeignKey ==
    /\ pc = "call"
    /\ call.fn = "assign_foreign_key"
    /\ result' \in AssignForeignKeyCall(call.child_df, call.child_col, call.parent,
                                         call.parent_col, call.condition)
    /\ pc' = "call_done"
    /\ UNCHANGED <<schema, cursor, dependencies, tables_data, df,
                   generated_tables, events, seqVars, streamVars, call>>

InitFK == Init \/ InitAssign

NextFK == Next \/ CallAssignForeignKey

\* assign_foreign_key as the pipeline calls it and as a caller may call it
SpecFK == InitFK /\ [][NextFK]_vars

AssignReturned ==
    pc = "call_done" /\ call.fn = "assign_foreign_key" /\ result.ok

\* row i of the child satisfies the condition of the call
Satisfies(i) ==
    IF call.condition.kind = "callable"
       THEN call.condition.pred[call.child_df.rows[i]["val"]]
       ELSE /\ call.child_df.rows[i][call.condition.col] = call.condition.value
            /\ call.condition.value # Null

\* C11: assign_foreign_key with a condition returns a child in which every
\* row satisfying the condition holds one of the parent's non-null keys in the
\* foreign-key column and every other row holds null there, whatever the
\* column held before.
C11_ConditionalAssignment ==
    (AssignReturned /\ call.condition.kind # "none") =>
        /\ Len(result.df.rows) = Len(call.child_df.rows)
        /\ \A i \in 1..Len(result.df.rows) :
              IF Satisfies(i)
                 THEN result.df.rows[i][call.child_col]
                         \in ColumnValues(call.parent.df, call.parent_col) \ {Null}
                 ELSE result.df.rows[i][call.child_col] = Null

\* a dict condition over two rows that both held 7: one satisfies it and has
\* a parent key, the other fails it and has null
C11_Witness ==
    /\ AssignReturned
    /\ call.condition.kind = "dict"
    /\ Len(call.child_df.rows) = 2
    /\ \A i \in 1..2 : call.child_df.rows[i]["ref"] = 7
    /\ result.df.rows[1]["ref"] = 2
    /\ result.df.rows[2]["ref"] = Null

\* a foreign-key column of the table at the cursor whose parent was generated
\* and lacks the parent column or holds no non-null key
ParentDataMissing ==
    /\ pc = "fk"
    /\ schema.tables[cursor].name \in DOMAIN tables_data
    /\ \E k \in 1..Len(schema.tables[cursor].columns) :
          LET fk == schema.tables[cursor].columns[k].foreign_key
          IN  /\ fk.table \in DOMAIN tables_data
              /\ \/ fk.column \notin tables_data[fk.table].cols
                 \/ ColumnValues(tables_data[fk.table], fk.column) \subseteq {Null}

CallWithoutParentData ==
    /\ pc = "call_done"
    /\ call.fn = "assign_foreign_key"
    /\ \/ call.parent.absent
       \/ call.parent_col \notin call.parent.df.cols
       \/ ColumnValues(call.parent.df, call.parent_col) \subseteq {Null}

\* C12: assign_foreign_key raises, and returns no table, when the parent table
\* is absent, lacks the parent column, or holds no non-null key (a parent of
\* zero rows included); in the pipeline the error ends the run.
C12_MissingParentDataRaises ==
    /\ [](CallWithoutParentData => ~result.ok)
    /\ [][ParentDataMissing => (pc' = "error" /\ tables_data' = tables_data)]_vars

\* a run ended by a foreign key to a column its generated parent lacks
C12_Witness ==
    /\ pc = "error"
    /\ "A" \in DOMAIN tables_data
    /\ "B" \in DOMAIN tables_data
    /\ Len(schema.tables) = 2
    /\ Len(schema.tables[2].columns) = 3
    /\ schema.tables[2].columns[2].foreign_key = [table |-> "A", column |-> "ts"]

-----------------------------------------------------------------------------
(* Properties of the pipeline's handling of unknown parents, failing causal *)
(* expressions and conditional columns                                     *)

\* some column names, as its foreign_key.table, a table the schema lacks
UnknownParentFK ==
    \E ik \in SchemaColumns :
        LET fk == schema.tables[ik[1]].columns[ik[2]].foreign_key
        IN  fk.table # "" /\ fk.table \notin SchemaNames

\* C13: a foreign key to a table the schema does not have adds no edge, so
\* dependency resolution succeeds, and the foreign-key sweep reports an error
\* for that column: the run does not get past the sweep.
C13_UnknownParentIsReported ==
    (schema.type = "tables" /\ UnknownParentFK /\ ~Cyclic /\ pc # "start") =>
        /\ Len(dependencies) = Len(schema.tables)
        /\ pc \notin {"scm", "validate", "done"}

\* the causal expressions of the table at the cursor that name a column the
\* table does not have
FailingExpressions ==
    LET t == schema.tables[cursor]
    IN  {k \in 1..Len(t.scm) :
            t.scm[k].fn.kind = "col" /\ t.scm[k].fn.col \notin tables_data[t.name].cols}

\* C14: a causal expression that neither the vectorized path nor the per-row
\* fallback can evaluate leaves its target column entirely null, and the run
\* continues: no exception leaves the evaluator.
C14_FailingExpressionIsRecovered ==
    [][(pc = "scm" /\ schema.tables[cursor].name \in DOMAIN tables_data) =>
          /\ pc' # "error"
          /\ \A k \in FailingExpressions :
                LET t == schema.tables[cursor]
                IN  /\ t.scm[k].col \in tables_data'[t.name].cols
                    /\ ColumnValues(tables_data'[t.name], t.scm[k].col) \subseteq {Null}
      ]_vars

\* C15: a conditional column holds in every row a value of the sub-distribution
\* of the case keyed by the row's value of `on`, and null exactly in the rows
\* whose `on` value matches no case; it has one value per row.
C15_ConditionalFollowsCases ==
    \A ik \in SchemaColumns :
        LET t   == schema.tables[ik[1]]
            col == t.columns[ik[2]]
        IN  (col.dist.type = "conditional" /\ t.name \in DOMAIN tables_data) =>
               LET d == tables_data[t.name]
               IN  /\ col.name \in d.cols
                   /\ \A i \in 1..Len(d.rows) :
                         IF d.rows[i][col.dist.on] \in DOMAIN col.dist.cases
                            THEN d.rows[i][col.name]
                                    \in col.dist.cases[d.rows[i][col.dist.on]].values
                            ELSE d.rows[i][col.name] = Null

-----------------------------------------------------------------------------
(* enforce_constraints called directly *)

ValueRange(column, mn, mx) ==
    [Constraint("value_range", column) EXCEPT !.min = mn, !.max = mx]

Regex(column, pattern) ==
    [Constraint("regex", column) EXCEPT !.pattern = pattern]

\* constraints over column val, and one over a column the tables lack
CallConstraints ==
    {ValueRange("val", 2, 3), ValueRange("val", 2, Null),
     ValueRange("val", Null, 3), ValueRange("val", 3, 2),
     [Constraint("categorical", "val") EXCEPT !.values = {1, 12}],
     Constraint("categorical", "val"),
     Constraint("nullability", "val"),
     [Constraint("nullability", "val") EXCEPT !.nullable = TRUE],
     Regex("val", <<"1">>), Regex("val", <<".", "2">>), Regex("val", <<>>),
     Constraint("unique", "val"),
     Constraint("graph_relation", "val"),
     Constraint("unique", "ts")}

\* tables of up to MaxCallRows rows over id = 1, 2, ... and val
ConstrainedTables ==
    UNION {{[cols |-> {"id", "val"},
             rows |-> [i \in 1..n |->
                         [EmptyRow EXCEPT !["id"] = i, !["val"] = v[i]]]] :
               v \in [1..n -> {Null, 1, 3, 12}]} :
           n \in 0..MaxCallRows}

EnforceCalls ==
    {[fn |-> "enforce_constraints", df |-> d, constraints |-> cs] :
        d \in ConstrainedTables,
        cs \in {<<>>} \cup {<<c>> : c \in CallConstraints}
                      \cup {<<c, e>> : c, e \in CallConstraints}}

InitEnforce == InitCall(EnforceCalls)

CallEnforceConstraints ==
    /\ pc = "call"
    /\ call.fn = "enforce_constraints"
    /\ result' = Returned(EnforceConstraints(call.df, call.constraints))
    /\ pc' = "call_done"
    /\ UNCHANGED <<schema, cursor, dependencies, tables_data, df,
                   generated_tables, events, seqVars, streamVars, call>>

SpecEnforce == InitEnforce /\ [][CallEnforceConstraints]_vars

EnforceReturned == pc = "call_done" /\ call.fn = "enforce_constraints"

\* the columns some value_range constraint of the call names
ClippedColumns ==
    {call.constraints[k].column :
        k \in {j \in 1..Len(call.constraints) :
                 call.constraints[j].type = "value_range"}}

\* the output has the input's columns, and its rows are the input's rows at
\* some positions, in order: equal in every column no value_range names, and
\* holding the input's value or a bound in the others
SameColumnsFewerRows ==
    /\ result.df.cols = call.df.cols
    /\ \E keep \in SUBSET (1..Len(call.df.rows)) :
          LET kept == FilterRows(call.df.rows, keep, 1)
          IN  /\ Len(result.df.rows) = Len(kept)
              /\ \A j \in 1..Len(kept) : \A c \in call.df.cols :
                    \/ result.df.rows[j][c] = kept[j][c]
                    \/ /\ c \in ClippedColumns
                       /\ \E k \in 1..Len(call.constraints) :
                             /\ call.constraints[k].type = "value_range"
                             /\ result.df.rows[j][c] \in
                                   {call.constraints[k].min, call.constraints[k].max}
                                      \ {Null}

\* the value the cell must hold after the value_range constraint c: the
\* violated bound when the value is out of range, the value itself otherwise
ExpectedClip(v, c) ==
    IF v = Null THEN {Null}
    ELSE LET below == c.min # Null /\ v < c.min
             above == c.max # Null /\ v > c.max
         IN  IF ~below /\ ~above THEN {v}
             ELSE (IF below THEN {c.min} ELSE {}) \cup (IF above THEN {c.max} ELSE {})

\* a lone value_range constraint keeps every row and every other column
ClipsOnly(c) ==
    /\ Len(result.df.rows) = Len(call.df.rows)
    /\ \A i \in 1..Len(call.df.rows) :
          /\ \A x \in call.df.cols \ {c.column} :
                result.df.rows[i][x] = call.df.rows[i][x]
          /\ result.df.rows[i][c.column] \in ExpectedClip(call.df.rows[i][c.column], c)

LoneValueRange ==
    /\ Len(call.constraints) = 1
    /\ call.constraints[1].type = "value_range"
    /\ call.constraints[1].column \in call.df.cols

\* C16 as stated: enforce_constraints returns, for every table and list of
\* constraints, the same columns and an order-preserving subsequence of the
\* rows; a value_range constraint removes no row and only replaces
\* out-of-range values by the violated bound.
C16_EnforceOnlyFiltersAndClips_Original ==
    EnforceReturned =>
        /\ SameColumnsFewerRows
        /\ LoneValueRange => ClipsOnly(call.constraints[1])

\* C16, amended: the same, with the replacement by the violated bound stated
\* for value_range constraints whose min does not exceed their max; when min
\* exceeds max every value present becomes max.
C16_EnforceOnlyFiltersAndClips ==
    EnforceReturned =>
        /\ SameColumnsFewerRows
        /\ (LoneValueRange /\ (call.constraints[1].min = Null
                               \/ call.constraints[1].max = Null
                               \/ call.constraints[1].min <= call.constraints[1].max))
              => ClipsOnly(call.constraints[1])
        /\ (LoneValueRange /\ call.constraints[1].min # Null
                           /\ call.constraints[1].max # Null
                           /\ call.constraints[1].min > call.constraints[1].max)
              => \A i \in 1..Len(result.df.rows) :
                    result.df.rows[i]["val"] =
                        IF call.df.rows[i]["val"] = Null THEN Null
                        ELSE call.constraints[1].max

\* a table of two rows, one below and one above the range 2..3, both clipped
C16_Witness ==
    /\ EnforceReturned
    /\ call.constraints = <<ValueRange("val", 2, 3)>>
    /\ Len(call.df.rows) = 2
    /\ call.df.rows[1]["val"] = 1
    /\ call.df.rows[2]["val"] = 12
    /\ result.df.rows[1]["val"] = 2
    /\ result.df.rows[2]["val"] = 3

\* a match that must reach the end of the string
StrFullMatch(pattern, str) ==
    /\ Len(pattern) = Len(str)
    /\ \A k \in 1..Len(pattern) : pattern[k] = "." \/ pattern[k] = str[k]

\* C17: a regex constraint keeps exactly the rows whose value, in string
\* form, matches the pattern in full, and drops every other row.
C17_RegexKeepsFullMatches ==
    (/\ EnforceReturned
     /\ Len(call.constraints) = 1
     /\ call.constraints[1].type = "regex"
     /\ call.constraints[1].pattern # <<>>) =>
        result.df.rows =
            FilterRows(call.df.rows,
                       {i \in 1..Len(call.df.rows) :
                           StrFullMatch(call.constraints[1].pattern,
                                        StrCell(call.df, "val", i))},
                       1)

-----------------------------------------------------------------------------
(* The row-count override of batch mode, and the row counts the generator
   reads from the overridden schema *)

\* JSON values: integers, true/false, a non-numeric string, null, a list,
\* a number with a fraction (n is its integer part), and objects
JInt(n) == [kind |-> "int", n |-> n, items |-> EmptyMap]
JBool(b) == [kind |-> "bool", n |-> IF b THEN 1 ELSE 0, items |-> EmptyMap]
JStr == [kind |-> "str", n |-> 0, items |-> EmptyMap]
JNull == [kind |-> "null", n |-> 0, items |-> EmptyMap]
JList == [kind |-> "list", n |-> 0, items |-> EmptyMap]
JFloat(n) == [kind |-> "float", n |-> n, items |-> EmptyMap]
JDict(items) == [kind |-> "dict", n |-> 0, items |-> items]

\* the --row-counts argument: empty, a text json.loads rejects, or JSON text
NoOverride == [kind |-> "none", n |-> 0, items |-> EmptyMap]
NotJSON == [kind |-> "invalid", n |-> 0, items |-> EmptyMap]

\* isinstance(v, int): bool is a subclass of int
IsInstanceInt(v) == v.kind \in {"int", "bool"}

\* int(v) raises for a non-numeric string, None and containers
IntRaises(v) == v.kind \notin {"int", "bool", "float"}

IntOf(v) == v.n

OverrideValues ==
    {JInt(n) : n \in 0..MaxCallRows} \cup {JStr, JNull}

RowCountOverrides ==
    {NoOverride, NotJSON, JStr, JNull, JList, JFloat(1), JBool(TRUE)}
        \cup {JInt(n) : n \in 0..MaxCallRows}
        \cup {JDict(m) : m \in UNION {[D -> OverrideValues] :
                                        D \in SUBSET {"A", "B", "Z"}}}

\* working_schema["tables"]: tables A and B with their declared row counts
OverriddenTables ==
    {<<[name |-> "A", rows |-> JInt(a)], [name |-> "B", rows |-> JInt(b)]>> :
        a, b \in 0..MaxCallRows}

OverrideCalls ==
    {[fn |-> "generate_tables_from_graph", tables |-> ts, override |-> o] :
        ts \in OverriddenTables, o \in RowCountOverrides}

InitOverride == InitCall(OverrideCalls)

\* the tables after the override, and whether a warning was printed
OverrideRowCounts(tables, o) ==
    IF o.kind = "none" THEN [tables |-> tables, warned |-> FALSE]
    ELSE IF o.kind = "invalid" THEN [tables |-> tables, warned |-> TRUE]
    ELSE IF o.kind = "dict"
         THEN [tables |-> [i \in 1..Len(tables) |->
                             IF tables[i].name \in DOMAIN o.items
                             THEN [tables[i] EXCEPT !.rows = o.items[tables[i].name]]
                             ELSE tables[i]],
               warned |-> FALSE]
    ELSE IF IsInstanceInt(o)
         THEN [tables |-> [i \in 1..Len(tables) |-> [tables[i] EXCEPT !.rows = o]],
               warned |-> FALSE]
    ELSE [tables |-> tables, warned |-> TRUE]

ApplyRowCountsOverride ==
    /\ pc = "call"
    /\ call.fn = "generate_tables_from_graph"
    /\ result' = [ok |-> TRUE] @@ OverrideRowCounts(call.tables, call.override)
    /\ pc' = "overridden"
    /\ UNCHANGED <<schema, cursor, dependencies, tables_data, df,
                   generated_tables, events, seqVars, streamVars, call>>

\* generate_scenario_data reads n = int(rows) of every table
ReadRowCounts ==
    /\ pc = "overridden"
    /\ result' =
          IF \E i \in 1..Len(result.tables) : IntRaises(result.tables[i].rows)
          THEN Raised
          ELSE [ok |-> TRUE,
                n |-> [i \in 1..Len(result.tables) |-> IntOf(result.tables[i].rows)]]
    /\ pc' = "call_done"
    /\ UNCHANGED <<schema, cursor, dependencies, tables_data, df,
                   generated_tables, events, seqVars, streamVars, call>>

NextOverride == ApplyRowCountsOverride \/ ReadRowCounts

SpecOverride == InitOverride /\ [][NextOverride]_vars

\* an override the program is to ignore: not JSON, a JSON value that is
\* neither an integer nor a mapping, or a mapping with a non-integer value
Malformed(o) ==
    \/ o.kind \in {"invalid", "str", "null", "list", "float", "bool"}
    \/ o.kind = "dict" /\ \E t \in DOMAIN o.items : o.items[t].kind # "int"

\* C18: an integer override sets every table's row count; a mapping sets the
\* row count of exactly the tables it names; a malformed override is ignored
\* with a warning, leaves every row count unchanged and never fails the run.
C18_RowCountOverride ==
    LET o == call.override
    IN  /\ (pc = "overridden" /\ o.kind = "int") =>
              \A i \in 1..Len(call.tables) : result.tables[i].rows = o
        /\ (pc = "overridden" /\ o.kind = "dict" /\ ~Malformed(o)) =>
              \A i \in 1..Len(call.tables) :
                 result.tables[i].rows =
                    IF call.tables[i].name \in DOMAIN o.items
                    THEN o.items[call.tables[i].name]
                    ELSE call.tables[i].rows
        /\ (pc = "overridden" /\ Malformed(o)) =>
              result.warned /\ result.tables = call.tables
        /\ (pc = "call_done" /\ call.fn = "generate_tables_from_graph"
                             /\ Malformed(o)) => result.ok

-----------------------------------------------------------------------------
(* _generate_custom_format called directly *)

MaxPatternLen == 2

\* the characters patterns are written with: the placeholder and two literals
PatternChars == {"#", "E", "-"}

\* str(random.randint(0, 9))
RandomDigits == {DigitChars[d + 1] : d \in 0..9}

\* a mutation of FormatChar: every character is replaced by a digit
FormatCharAllDigits(ch) == RandomDigits

\* what one character of the pattern becomes
FormatChar(ch) == IF ch = "#" THEN RandomDigits ELSE {ch}

\* the strings "".join(...) can produce for one row
CustomFormatStrings(pattern) ==
    {v \in [1..Len(pattern) -> PatternChars \cup RandomDigits] :
        \A k \in 1..Len(pattern) : v[k] \in FormatChar(pattern[k])}

\* a missing pattern reads as the empty string
Patterns ==
    UNION {[1..n -> PatternChars] : n \in 0..MaxPatternLen}

CustomFormatCalls ==
    {[fn |-> "_generate_custom_format", pattern |-> p, num_rows |-> n] :
        p \in Patterns, n \in 0..MaxCallRows}

InitCustomFormat == InitCall(CustomFormatCalls)

CallGenerateCustomFormat ==
    /\ pc = "call"
    /\ call.fn = "_generate_custom_format"
    /\ \E vals \in [1..call.num_rows -> CustomFormatStrings(call.pattern)] :
          result' = [ok |-> TRUE, vals |-> vals]
    /\ pc' = "call_done"
    /\ UNCHANGED <<schema, cursor, dependencies, tables_data, df,
                   generated_tables, events, seqVars, streamVars, call>>

SpecCustomFormat == InitCustomFormat /\ [][CallGenerateCustomFormat]_vars

\* C19: every value of a custom_format column has the pattern's length, a
\* digit 0-9 wherever the pattern has '#', and the pattern's own character at
\* every other position; one value is produced per row.
C19_CustomFormatFollowsPattern ==
    (pc = "call_done" /\ call.fn = "_generate_custom_format") =>
        /\ Len(result.vals) = call.num_rows
        /\ \A i \in 1..Len(result.vals) :
              /\ Len(result.vals[i]) = Len(call.pattern)
              /\ \A k \in 1..Len(call.pattern) :
                    IF call.pattern[k] = "#"
                    THEN result.vals[i][k] \in
                            {"0", "1", "2", "3", "4", "5", "6", "7", "8", "9"}
                    ELSE result.vals[i][k] = call.pattern[k]

\* pattern "E#" for two rows yields "E0" and "E9"
C19_Witness ==
    /\ pc = "call_done"
    /\ call.fn = "_generate_custom_format"
    /\ call.pattern = <<"E", "#">>
    /\ call.num_rows = 2
    /\ result.vals = << <<"E", "0">>, <<"E", "9">> >>

-----------------------------------------------------------------------------
(* _generate_integer, the generator of "uniform" and "normal" columns, called
   directly.  Bounds and raw draws are numbers counted in halves (3 stands
   for 1.5); generated values are integers. *)

MaxHalf == 4

Halves == (0 - MaxHalf)..MaxHalf

\* int(x): truncation towards zero
IntTrunc(h) == IF h >= 0 THEN h \div 2 ELSE 0 - ((0 - h) \div 2)

\* numpy's round(): to the nearest integer, ties to the even one
RoundHalfEven(h) ==
    IF h % 2 = 0 THEN h \div 2
    ELSE LET lo == (h - 1) \div 2
         IN  IF lo % 2 = 0 THEN lo ELSE lo + 1

\* np.random.normal(...): with a positive stddev any number can be drawn
NormalDraws == (0 - (MaxHalf + 2))..(MaxHalf + 2)

\* np.clip(a, mn, mx) = minimum(maximum(a, mn), mx)
NpClip(a, mn, mx) ==
    LET lower == IF a < mn THEN mn ELSE a
    IN  IF lower > mx THEN mx ELSE lower

IntegerCalls ==
    {[fn |-> "_generate_integer", type |-> t, min |-> mn, max |-> mx,
      num_rows |-> n] :
        t \in {"uniform", "normal"}, mn \in Halves, mx \in Halves,
        n \in 0..MaxCallRows}

InitInteger == InitCall(IntegerCalls)

\* np.random.randint(low, high + 1, size) raises when low > high
GenerateUniform ==
    /\ call.type = "uniform"
    /\ LET low == IntTrunc(call.min)
           high == IntTrunc(call.max)
       IN  IF low > high THEN result' = Raised
           ELSE \E vals \in [1..call.num_rows -> low..high] :
                   result' = [ok |-> TRUE, vals |-> vals]

GenerateNormal ==
    /\ call.type = "normal"
    /\ \E draws \in [1..call.num_rows -> NormalDraws] :
          result' = [ok |-> TRUE,
                     vals |-> [i \in 1..call.num_rows |->
                                 NpClip(RoundHalfEven(draws[i]),
                                        IntTrunc(call.min), IntTrunc(call.max))]]

CallGenerateInteger ==
    /\ pc = "call"
    /\ call.fn = "_generate_integer"
    /\ GenerateUniform \/ GenerateNormal
    /\ pc' = "call_done"
    /\ UNCHANGED <<schema, cursor, dependencies, tables_data, df,
                   generated_tables, events, seqVars, streamVars, call>>

SpecInteger == InitInteger /\ [][CallGenerateInteger]_vars

\* C20: a uniform column, and a normal column with min and max given, with
\* min <= max, gets exactly rowCount values, every one of them in the closed
\* interval [min, max].
C20_ValuesWithinBounds ==
    (/\ pc = "call_done"
     /\ call.fn = "_generate_integer"
     /\ call.min <= call.max) =>
        /\ result.ok
        /\ Len(result.vals) = call.num_rows
        /\ \A i \in 1..Len(result.vals) :
              call.min <= 2 * result.vals[i] /\ 2 * result.vals[i] <= call.max

-----------------------------------------------------------------------------
(* One invocation of generate_tables_from_graph (batch mode, or streaming
   to files or to stdout) or of the server's event_generator: every batch
   runs generate_scenario_data and post_generation_validate on its schema.
   Time is counted in ticks. *)

MaxInterval == 1
MaxDuration == 2

\* the parsed schema: a table with a counter, with or without a time series,
\* beside a table of one constant column; or a parent whose key may be drawn
\* null and its child
RunTemplates ==
    {[type |-> "tables",
      tables |-> <<[PlainTable("A", <<Column("id", SeqDist(1, k), NoFK, FALSE, TRUE)>>)
                      EXCEPT !.time_series_spec = ts],
                   PlainTable("B", <<Column("val", CatDist({5}), NoFK, FALSE, TRUE)>>)>>] :
        k \in {0, 2}, ts \in {NoTimeSeries, [column |-> "ts"]}}
    \cup
    {[type |-> "tables",
      tables |-> <<PlainTable("A", <<Column("val", CatDist({Null, 1}), NoFK, FALSE, TRUE)>>),
                   PlainTable("B", <<Column("id", SeqDist(1, 1), NoFK, FALSE, TRUE),
                                     Column("ref", SeqDist(1, 1),
                                            [table |-> "A", column |-> "val"],
                                            FALSE, TRUE)>>)>>]}

Runs ==
    [mode : {"batch", "cli_out", "cli_stdout", "server"},
     rate : 0..MaxRate, interval : 0..MaxInterval, duration : 0..MaxDuration,
     elapsed : {0}, working_schema : RunTemplates]

InitRun ==
    /\ stream \in Runs
    /\ schema = NoSchema
    /\ pc = "run"
    /\ IdlePipeline
    /\ IdleSeq
    /\ sequential_state = EmptyMap
    /\ batches = <<>>
    /\ IdleCall

\* a batch that writes its changes into the template itself
WorkingSchemaAliased(working_schema, batch_schema) == batch_schema

\* batch_schema = copy.deepcopy(working_schema): the template after the batch
\* schema was changed
WorkingSchemaAfter(working_schema, batch_schema) == working_schema

\* the batch schema: rows = rate, every sequential start taken from the state
BatchSchema(sch, state, rate) ==
    [sch EXCEPT !.tables =
        [i \in 1..Len(sch.tables) |->
            [sch.tables[i] EXCEPT
                !.rows = rate,
                !.columns =
                    [c \in 1..Len(sch.tables[i].columns) |->
                        LET col == sch.tables[i].columns[c]
                        IN  IF col.dist.type = "sequential"
                               THEN [col EXCEPT !.dist.start =
                                        CurrentStart(state,
                                            <<sch.tables[i].name, col.name>>, col.dist)]
                               ELSE col]]]]

ResetPipeline ==
    /\ cursor' = 1
    /\ dependencies' = <<>>
    /\ tables_data' = EmptyMap
    /\ df' = EmptyTable
    /\ generated_tables' = EmptyMap
    /\ events' = <<>>

\* batch mode runs the pipeline on the parsed schema; streaming to files and
\* the server first record the start of every sequential column
RunSetup ==
    /\ pc = "run"
    /\ IF stream.mode = "batch"
          THEN /\ schema' = stream.working_schema
               /\ pc' = "start"
               /\ UNCHANGED sequential_state
          ELSE /\ sequential_state' =
                     IF stream.mode = "cli_stdout" THEN EmptyMap
                     ELSE [key \in SequentialKeys(stream.working_schema) |->
                             DistOf(stream.working_schema, key).start]
               /\ pc' = "stream_loop"
               /\ UNCHANGED schema
    /\ UNCHANGED <<cursor, dependencies, tables_data, df, generated_tables,
                   events, seqVars, stream, batches, callVars>>

\* the top of one iteration: the loop condition holds, the batch schema is
\* built and the counters advance
BeginBatch ==
    /\ pc = "stream_loop"
    /\ stream.elapsed < stream.duration
    /\ Len(batches) < MaxBatches
    /\ LET tpl  == stream.working_schema
           keys == SequentialKeys(tpl)
           b    == BatchSchema(tpl, sequential_state, stream.rate)
       IN  /\ schema' = b
           /\ stream' = [stream EXCEPT !.working_schema = WorkingSchemaAfter(tpl, b)]
           /\ sequential_state' =
                 [key \in keys |->
                    NextStart(CurrentStart(sequential_state, key, DistOf(tpl, key)),
                              stream.rate, DistOf(tpl, key).step)]
    /\ ResetPipeline
    /\ pc' = "start"
    /\ UNCHANGED <<seqVars, batches, callVars>>

\* the bottom of one iteration: the validated tables are written or printed
\* or yielded, then the loop sleeps.  The command line reads the wall clock,
\* which a batch advances by at least one tick beside the sleep; the server
\* adds the interval to total_time.
EmitBatch ==
    /\ pc = "done"
    /\ stream.mode \in {"cli_out", "cli_stdout", "server"}
    /\ batches' = Append(batches, tables_data)
    /\ stream' = [stream EXCEPT !.elapsed =
                     IF stream.mode = "server" THEN @ + stream.interval
                     ELSE @ + stream.interval + 1]
    /\ pc' = "stream_loop"
    /\ UNCHANGED <<schema, cursor, dependencies, tables_data, df,
                   generated_tables, events, seqVars, sequential_state, callVars>>

\* the loop condition fails
EndStream ==
    /\ pc = "stream_loop"
    /\ stream.elapsed >= stream.duration
    /\ pc' = "stream_done"
    /\ UNCHANGED <<schema, cursor, dependencies, tables_data, df,
                   generated_tables, events, seqVars, streamVars, callVars>>

\* batch mode: paths = export_all_tables(...) builds the coroutine of the
\* export without awaiting it, so no file is written by this call
ExportTables ==
    /\ pc = "done"
    /\ stream.mode = "batch"
    /\ pc' = "exported"
    /\ UNCHANGED <<schema, cursor, dependencies, tables_data, df,
                   generated_tables, events, seqVars, streamVars, callVars>>

NextRun == RunSetup \/ BeginBatch \/ Next \/ EmitBatch \/ EndStream \/ ExportTables

SpecRun == InitRun /\ [][NextRun]_vars

\* C21: when a fatal error ends an invocation, in batch mode or at any batch
\* of a stream, no table data of that invocation has been exported, written
\* or printed.
C21_NoOutputBeforeFatalError ==
    (pc = "error" /\ stream.mode # "") => batches = <<>>

\* every step that can be taken is taken: the loops run on their own
SpecRunFair == SpecRun /\ WF_vars(NextRun)

C28_TemplateIsNeverModified ==
    [][stream.mode \in {"cli_out", "cli_stdout", "server"} =>
          /\ stream'.working_schema = stream.working_schema
          /\ \A i \in 1..Len(stream.working_schema.tables) :
                /\ stream'.working_schema.tables[i].rows =
                      stream.working_schema.tables[i].rows
                /\ \A c \in 1..Len(stream.working_schema.tables[i].columns) :
                      stream'.working_schema.tables[i].columns[c].dist.start =
                         stream.working_schema.tables[i].columns[c].dist.start]_vars

\* the second batch of two rows is about to be generated: its schema has
\* other row counts and another start than the template, and the counter
\* state has advanced
C28_Witness ==
    /\ stream.mode \in {"cli_out", "cli_stdout", "server"}
    /\ pc = "start"
    /\ Len(batches) = 1
    /\ stream.rate = 2
    /\ stream.working_schema.tables[1].rows = 1
    /\ schema.tables[1].rows = 2
    /\ <<"A", "id">> \in DOMAIN sequential_state
    /\ DistOf(stream.working_schema, <<"A", "id">>).start = 1
    /\ DistOf(schema, <<"A", "id">>).start = 5
    /\ sequential_state[<<"A", "id">>] = 9

-----------------------------------------------------------------------------
(* parse_graph and parse_graph_from_dict *)

\* the attributes of a graph node
Nodes(name) ==
    {[name |-> name, row_count |-> r, columns |-> <<IdColumn>>,
      constraints |-> cs, scm |-> m, time_series_spec |-> ts] :
        r \in 0..MaxRows,
        cs \in {<<>>, <<Constraint("unique", "id")>>},
        m \in {<<>>, <<[col |-> "val", fn |-> ColExpr("id")]>>},
        ts \in {NoTimeSeries, [column |-> "ts"]}}

\* graphs of one or two nodes, with or without a graph-level constraint
\* scoped to table A
Graphs ==
    {[nodes |-> ns, constraints |-> gc] :
        ns \in {<<a>> : a \in Nodes("A")}
                  \cup {<<a, b>> : a \in Nodes("A"), b \in Nodes("B")},
        gc \in {<<>>, <<[table |-> "A",
                         constraint |-> Constraint("nullability", "id")]>>}}

\* the table entry of one node: name, columns, rows and, when given, the
\* time series; a key the entry lacks reads as empty downstream
TableEntry(attrs) ==
    [name |-> attrs.name, rows |-> attrs.row_count, columns |-> attrs.columns,
     constraints |-> <<>>, time_series_spec |-> attrs.time_series_spec,
     scm |-> <<>>]

ParseGraph(G) ==
    [type |-> "tables",
     tables |-> [i \in 1..Len(G.nodes) |-> TableEntry(G.nodes[i])]]

ParseCalls ==
    {[fn |-> f, graph |-> G] :
        f \in {"parse_graph", "parse_graph_from_dict"}, G \in Graphs}

InitParse == InitCall(ParseCalls)

CallParseGraph ==
    /\ pc = "call"
    /\ call.fn \in {"parse_graph", "parse_graph_from_dict"}
    /\ result' = [ok |-> TRUE, working_schema |-> ParseGraph(call.graph)]
    /\ pc' = "call_done"
    /\ UNCHANGED <<schema, cursor, dependencies, tables_data, df,
                   generated_tables, events, seqVars, streamVars, call>>

SpecParse == InitParse /\ [][CallParseGraph]_vars

\* the graph-level constraints whose table is `name`, in order
RECURSIVE ScopedConstraints(_, _, _)
ScopedConstraints(gc, name, k) ==
    IF k > Len(gc) THEN <<>>
    ELSE (IF gc[k].table = name THEN <<gc[k].constraint>> ELSE <<>>)
            \o ScopedConstraints(gc, name, k + 1)

\* C23: the table entry of every node carries the node's constraints, then
\* the graph-level constraints scoped to the node's table, and the node's scm.
C23_ParserKeepsConstraintsAndScm ==
    (pc = "call_done" /\ call.fn \in {"parse_graph", "parse_graph_from_dict"}) =>
        \A i \in 1..Len(call.graph.nodes) :
            LET node  == call.graph.nodes[i]
                entry == result.working_schema.tables[i]
            IN  /\ entry.name = node.name
                /\ entry.constraints =
                      node.constraints
                         \o ScopedConstraints(call.graph.constraints, node.name, 1)
                /\ entry.scm = node.scm

-----------------------------------------------------------------------------
(* The mapping generate_scenario_data returns *)

\* C24: generate_scenario_data returns one generated table per table of the
\* schema, keyed by the table's name, for schemas of the 'tables' form and of
\* the 'nodes' form alike; a schema with neither key is rejected.
C24_OneTablePerSchemaTable ==
    /\ (pc = "done" /\ stream = NoStream) =>
          DOMAIN generated_tables = {schema.tables[i].name : i \in 1..Len(schema.tables)}
    /\ (schema.type = "none" /\ pc # "start") => pc = "error"

-----------------------------------------------------------------------------
(* FakerManager: the instances one generation run hands to generate_column *)

MaxRequests == 3
MaxRuns == 2

\* locale codes; "" is a locale that is not set (None)
LocaleCodes == {"en_US", "fr_FR"}
OptionalLocales == LocaleCodes \cup {""}

\* the column's locale before the table's
RequestedLocaleTableFirst(column_locale, table_locale) ==
    IF table_locale # "" THEN table_locale ELSE column_locale

\* generate_column: column_locale or table_locale
RequestedLocale(column_locale, table_locale) ==
    IF column_locale # "" THEN column_locale ELSE table_locale

\* get_instance: target_locale = locale or self.default_locale
TargetLocale(locale, default_locale) ==
    IF locale # "" THEN locale ELSE default_locale

\* FakerManager(default_locale): no instance yet
NewManager(default_locale, run, next_id) ==
    [default_locale |-> default_locale, instances |-> EmptyMap,
     run |-> run, next_id |-> next_id, log |-> <<>>]

InitLocale ==
    /\ schema = NoSchema
    /\ pc = "locale"
    /\ IdlePipeline
    /\ IdleSeq
    /\ IdleStream
    /\ call = [fn |-> "FakerManager"]
    /\ \E d \in LocaleCodes : result = NewManager(d, 1, 1)

\* one generate_column call of the run: the instance for the column is
\* looked up, and created first when the cache lacks it
GetInstance ==
    /\ pc = "locale"
    /\ Len(result.log) < MaxRequests
    /\ \E column_locale \in OptionalLocales, table_locale \in OptionalLocales :
          LET target == TargetLocale(RequestedLocale(column_locale, table_locale),
                                     result.default_locale)
              cached == target \in DOMAIN result.instances
              inst   == IF cached THEN result.instances[target]
                        ELSE [locale |-> target, id |-> result.next_id]
          IN  result' =
                 [result EXCEPT
                    !.instances = MapPut(@, target, inst),
                    !.next_id = IF cached THEN @ ELSE @ + 1,
                    !.log = Append(@, [run |-> result.run,
                                       column_locale |-> column_locale,
                                       table_locale |-> table_locale,
                                       default_locale |-> result.default_locale,
                                       created |-> ~cached,
                                       instance |-> inst])]
    /\ UNCHANGED <<schema, pc, cursor, dependencies, tables_data, df,
                   generated_tables, events, seqVars, streamVars, call>>

\* the next call of generate_scenario_data builds its own manager; the log
\* of the earlier runs is kept for the record
NewRun ==
    /\ pc = "locale"
    /\ result.run < MaxRuns
    /\ \E d \in LocaleCodes :
          result' = [NewManager(d, result.run + 1, result.next_id)
                        EXCEPT !.log = result.log]
    /\ UNCHANGED <<schema, pc, cursor, dependencies, tables_data, df,
                   generated_tables, events, seqVars, streamVars, call>>

NextLocale == GetInstance \/ NewRun

SpecLocale == InitLocale /\ [][NextLocale]_vars

\* the locale a request is to be served with: the column's own, else the
\* table's, else the default of the run
EffectiveLocale(r) ==
    IF r.column_locale # "" THEN r.column_locale
    ELSE IF r.table_locale # "" THEN r.table_locale
    ELSE r.default_locale

\* C25: within one run every request is served by the instance of its
\* effective locale (column, else table, else default); a locale's instance
\* is created at most once per run and returned on every later request; a
\* new run starts with an empty cache.
C25_OneInstancePerLocalePerRun ==
    /\ [](pc = "locale" =>
            \A i \in 1..Len(result.log) :
               LET r == result.log[i]
               IN  /\ r.instance.locale = EffectiveLocale(r)
                   /\ \A j \in 1..Len(result.log) :
                         LET q == result.log[j]
                         IN  (q.run = r.run /\ EffectiveLocale(q) = EffectiveLocale(r)) =>
                                /\ q.instance = r.instance
                                /\ (q.created /\ r.created) => i = j
                                /\ (i < j) => ~q.created)
    /\ [][(pc = "locale" /\ result'.run # result.run) =>
             result'.instances = EmptyMap]_vars

\* a run that served three requests for fr_FR, named by the column, by the
\* table and by the default in turn, with one instance
C25_Witness ==
    /\ pc = "locale"
    /\ Len(result.log) = 3
    /\ result.default_locale = "fr_FR"
    /\ result.log[1].column_locale = "fr_FR" /\ result.log[1].table_locale = "en_US"
    /\ result.log[2].column_locale = "" /\ result.log[2].table_locale = "fr_FR"
    /\ result.log[3].column_locale = "" /\ result.log[3].table_locale = ""
    /\ result.log[1].created
    /\ result.log[3].instance = result.log[1].instance
    /\ DOMAIN result.instances = {"fr_FR"}

-----------------------------------------------------------------------------
(* post_generation_validate called directly, pass by pass *)

\* the passes with nullability first
PassAtNullFirst(k) ==
    CASE k = 1 -> "null" [] k = 2 -> "fk" [] OTHER -> "unique"

\* the k-th loop over the columns of one table
PassAt(k) ==
    CASE k = 1 -> "fk" [] k = 2 -> "unique" [] OTHER -> "null"

\* all_tables after one pass over the table
ApplyPass(pass, all_tables, table) ==
    CASE pass = "fk" ->
            RepairForeignKeys(all_tables, table.name, table.columns, 1)
      [] pass = "unique" ->
            MapPut(all_tables, table.name,
                   UniquenessPass(all_tables[table.name], table.columns, 1))
      [] OTHER ->
            MapPut(all_tables, table.name,
                   NullabilityPass(all_tables[table.name], table.columns, 1))

\* parent A with keys 1..n; child B of up to MaxCallRows rows whose ref holds
\* keys of A, keys A lacks and nulls
ValidatedTables ==
    {[A |-> [cols |-> {"id"},
             rows |-> [i \in 1..na |-> [EmptyRow EXCEPT !["id"] = i]]],
      B |-> [cols |-> {"id", "ref"},
             rows |-> [i \in 1..nb |->
                         [EmptyRow EXCEPT !["id"] = i, !["ref"] = v[i]]]]] :
        na \in 0..2, nb \in 0..MaxCallRows, v \in [1..MaxCallRows -> {Null, 1, 2, 9}]}

\* the spec: A and B in either order, B.ref a foreign key to A.id, unique or
\* not, nullable or not
ValidatedSpecs ==
    LET a == PlainTable("A", <<IdColumn>>)
        B(u, n) == PlainTable("B",
                     <<IdColumn,
                       Column("ref", SeqDist(1, 1), [table |-> "A", column |-> "id"],
                              u, n)>>)
    IN  UNION {{[type |-> "tables", tables |-> <<a, B(u, n)>>],
                [type |-> "tables", tables |-> <<B(u, n), a>>]} : u, n \in BOOLEAN}

ValidateCalls ==
    {[fn |-> "post_generation_validate", all_tables |-> ts, spec |-> sp] :
        ts \in ValidatedTables, sp \in ValidatedSpecs}

InitValidate == InitCall(ValidateCalls)

\* entering the function: the first pass of the first table is next
EnterValidate ==
    /\ pc = "call"
    /\ call.fn = "post_generation_validate"
    /\ result' = [ok |-> TRUE, all_tables |-> call.all_tables, t |-> 1, k |-> 1,
                  log |-> <<>>]
    /\ pc' = "pass"
    /\ UNCHANGED <<schema, cursor, dependencies, tables_data, df,
                   generated_tables, events, seqVars, streamVars, call>>

\* one loop over the columns of table t
ValidatePass ==
    /\ pc = "pass"
    /\ LET table == call.spec.tables[result.t]
           after == ApplyPass(PassAt(result.k), result.all_tables, table)
           last  == result.k = 3
       IN  /\ result' =
                 [result EXCEPT
                    !.all_tables = after,
                    !.k = IF last THEN 1 ELSE @ + 1,
                    !.t = IF last THEN @ + 1 ELSE @,
                    !.log = Append(@, [table |-> table.name,
                                       pass |-> PassAt(result.k),
                                       df |-> after[table.name]])]
           /\ pc' = IF last /\ result.t = Len(call.spec.tables)
                       THEN "call_done" ELSE "pass"
    /\ UNCHANGED <<schema, cursor, dependencies, tables_data, df,
                   generated_tables, events, seqVars, streamVars, call>>

NextValidate == EnterValidate \/ ValidatePass

SpecValidate == InitValidate /\ [][NextValidate]_vars

\* the ids of the rows of a table
RowIds(d) == {d.rows[i]["id"] : i \in 1..Len(d.rows)}

\* the table as it was before entry e of the log: the output of the entry
\* before it when that is a pass over the same table, the input otherwise
InputOf(e) ==
    IF e > 1 /\ result.log[e - 1].table = result.log[e].table
       THEN result.log[e - 1].df
       ELSE call.all_tables[result.log[e].table]

\* C26: for every table the passes run in the order foreign-key repair,
\* uniqueness, nullability, each on the table the pass before it left: the
\* repair removes no row, the later passes only remove rows of what they are
\* given, the uniqueness pass sees the repaired values, and a row whose
\* non-nullable foreign key the repair nulled is gone after the nullability
\* pass.
C26_PassesRunInOrderCumulatively ==
    (pc \in {"pass", "call_done"} /\ call.fn = "post_generation_validate") =>
        \A e \in 1..Len(result.log) :
            LET entry == result.log[e]
                table == call.spec.tables[((e - 1) \div 3) + 1]
                given == InputOf(e)
            IN  /\ entry.table = table.name
                /\ entry.pass = <<"fk", "unique", "null">>[((e - 1) % 3) + 1]
                /\ entry.pass = "fk" => RowIds(entry.df) = RowIds(given)
                /\ entry.pass # "fk" =>
                      \E keep \in SUBSET (1..Len(given.rows)) :
                          entry.df.rows = FilterRows(given.rows, keep, 1)
                /\ entry.pass = "unique" =>
                      /\ given.rows # <<>> => entry.df.rows[1] = given.rows[1]
                      /\ \A c \in 1..Len(table.columns) :
                            table.columns[c].unique =>
                               ~HasDuplicate(entry.df, table.columns[c].name)
                /\ entry.pass = "null" =>
                      \A c \in 1..Len(table.columns) :
                          ~table.columns[c].nullable =>
                             /\ Null \notin ColumnValues(entry.df, table.columns[c].name)
                             /\ \A i \in 1..Len(result.log[e - 2].df.rows) :
                                   result.log[e - 2].df.rows[i][table.columns[c].name] = Null
                                      => result.log[e - 2].df.rows[i]["id"]
                                            \notin RowIds(entry.df)

\* B.ref, unique and not nullable, holds two different keys A lacks: the
\* repair nulls both, the uniqueness pass keeps the first of the two nulls
\* and the nullability pass removes it
C26_Witness ==
    /\ pc = "call_done"
    /\ call.fn = "post_generation_validate"
    /\ call.spec.tables[1].name = "B"
    /\ Len(call.all_tables["B"].rows) = 2
    /\ call.all_tables["B"].rows[1]["ref"] = 9
    /\ call.all_tables["B"].rows[2]["ref"] = 2
    /\ Len(call.all_tables["A"].rows) = 1
    /\ Len(result.log[1].df.rows) = 2
    /\ Len(result.log[2].df.rows) = 1
    /\ Len(result.log[3].df.rows) = 0

-----------------------------------------------------------------------------
(* generate_column: the choice of the generator *)

\* generator_map: the generator of a key, "" for a key the map lacks
GeneratorMap(key) ==
    CASE key = "name" -> "_generate_name"
      [] key = "name_male" -> "_generate_name_male"
      [] key = "name_female" -> "_generate_name_female"
      [] key = "custom_format" -> "_generate_custom_format"
      [] key = "categorical" -> "_generate_categorical"
      [] key = "sequential" -> "_generate_sequential"
      [] key = "date" -> "_generate_date"
      [] key = "integer" -> "_generate_integer"
      [] key = "float" -> "_generate_float"
      [] key = "boolean" -> "_generate_boolean"
      [] key = "uniform" -> "_generate_integer"
      [] key = "normal" -> "_generate_integer"
      [] key = "conditional" -> "_generate_conditional"
      [] OTHER -> ""

\* the key looked up first: the distribution's type, else the column's type
\* when the map has it, else custom_format for a distribution with a
\* pattern, else name for a column called name or fullname
GeneratorKey(c) ==
    IF c.dtype # "" THEN c.dtype
    ELSE IF GeneratorMap(c.ctype) # "" THEN c.ctype
    ELSE IF c.pattern THEN "custom_format"
    ELSE IF c.name \in {"name", "fullname"} THEN "name"
    ELSE ""

\* the generator that produces the column; "word" is the final fallback
ChosenGenerator(c) ==
    IF GeneratorMap(GeneratorKey(c)) # "" THEN GeneratorMap(GeneratorKey(c))
    ELSE IF GeneratorMap(c.ctype) # "" THEN GeneratorMap(c.ctype)
    ELSE "word"

\* column definitions: ctype is the declared type ("string" when absent),
\* dtype the distribution's type ("" when absent), pattern whether the
\* distribution has a pattern, name the column's name in lower case
DispatchCalls ==
    {[fn |-> "generate_column", ctype |-> ct, dtype |-> dt, pattern |-> pt,
      name |-> nm] :
        ct \in {"string", "integer", "float", "boolean", "int", "text"},
        dt \in {"", "normal", "uniform", "categorical", "sequential",
                "custom_format", "bogus"},
        pt \in BOOLEAN,
        nm \in {"name", "fullname", "age"}}

InitDispatch == InitCall(DispatchCalls)

CallGenerateColumn ==
    /\ pc = "call"
    /\ call.fn = "generate_column"
    /\ result' = [ok |-> TRUE, generator |-> ChosenGenerator(call)]
    /\ pc' = "call_done"
    /\ UNCHANGED <<schema, cursor, dependencies, tables_data, df,
                   generated_tables, events, seqVars, streamVars, call>>

SpecDispatch == InitDispatch /\ [][CallGenerateColumn]_vars

\* the scalar types that have a strategy of their own
KnownScalarTypes == {"integer", "float", "boolean"}

\* C27: the strategy follows the distribution's type when there is one, else
\* the column's scalar type, else the word fallback; a column with neither
\* always gets the word fallback, and a normal distribution on a float column
\* is generated by the float strategy.
C27_DispatchPriority ==
    (pc = "call_done" /\ call.fn = "generate_column") =>
        /\ call.dtype = "categorical" => result.generator = "_generate_categorical"
        /\ call.dtype = "sequential" => result.generator = "_generate_sequential"
        /\ call.dtype = "custom_format" => result.generator = "_generate_custom_format"
        /\ call.dtype = "uniform" => result.generator = "_generate_integer"
        /\ call.dtype = "normal" =>
              result.generator = IF call.ctype = "float" THEN "_generate_float"
                                 ELSE "_generate_integer"
        /\ (call.dtype = "" /\ call.ctype \in KnownScalarTypes) =>
              result.generator = "_generate_" \o call.ctype
        /\ (call.dtype = "" /\ call.ctype \notin KnownScalarTypes) =>
              result.generator = "word"

-----------------------------------------------------------------------------
(* What the table returned by enforce_constraints satisfies *)

\* table d satisfies constraint c (a constraint that filters nothing, such
\* as an empty list of allowed values, is satisfied by every table)
Holds(d, c) ==
    \A i \in 1..Len(d.rows) :
        LET v == d.rows[i][c.column]
        IN  CASE c.type = "value_range" ->
                    v # Null => /\ (c.min # Null => v >= c.min)
                                /\ (c.max # Null => v <= c.max)
              [] c.type = "categorical" -> c.values # {} => v \in c.values
              [] c.type = "nullability" -> ~c.nullable => v # Null
              [] c.type = "regex" ->
                    c.pattern # <<>> => StrMatch(c.pattern, StrCell(d, c.column, i))
              [] c.type = "unique" ->
                    \A j \in 1..Len(d.rows) : (j # i /\ v # Null) => d.rows[j][c.column] # v
              [] OTHER -> TRUE

\* C29: the table enforce_constraints returns satisfies every constraint of
\* the list over a column the table has, all at once.
C29_AllConstraintsHoldTogether ==
    EnforceReturned =>
        \A k \in 1..Len(call.constraints) :
            call.constraints[k].column \in call.df.cols =>
                Holds(result.df, call.constraints[k])

\* C30: in the tables the full pipeline returns, every constraint listed in
\* a table's constraints holds: no stage after enforce_constraints writes a
\* violating value into a constrained column.
C30_ConstraintsHoldAtTheEnd ==
    pc = "done" =>
        \A i \in 1..Len(schema.tables) :
            LET t == schema.tables[i]
            IN  t.name \in DOMAIN tables_data =>
                    \A k \in 1..Len(t.constraints) :
                        t.constraints[k].column \in tables_data[t.name].cols =>
                            Holds(tables_data[t.name], t.constraints[k])

=============================================================================
